---- MODULE Spec2Model ----
(***************************************************************************)
(* Model of the arbmark helper functions: the workday / holiday / weekend  *)
(* counters of functions/workdays.py and the combinatorial aggregator      *)
(* proc_sums of functions/aggregation.py.                                  *)
(*                                                                         *)
(* Dates are numpy datetime64[D] values, i.e. integer day numbers counted  *)
(* from 1970-01-01 = 0.  A call is modelled by building the argument       *)
(* series row by row and then applying the function to them.               *)
(***************************************************************************)
EXTENDS Integers, Sequences, FiniteSets, TLC

VARIABLES
    window,       \* the dates the rows of the batch are drawn from
    from_dates,   \* argument series from_dates (day numbers)
    to_dates,     \* argument series to_dates (day numbers)
    wd_res,       \* outcome of count_workdays(from_dates, to_dates)
    hd_res,       \* outcome of count_holidays(from_dates, to_dates)
    we_res,       \* outcome of count_weekenddays(from_dates, to_dates)
    df,           \* proc_sums: the caller's table, a sequence of rows
    groups,       \* proc_sums: argument groups
    values,       \* proc_sums: argument values (None or a list)
    agg_func,     \* proc_sums: the caller's agg_func object (None or a dict)
    pc,           \* proc_sums: position of the call
    agg,          \* proc_sums: the dict handed to .agg()
    sum_df,       \* proc_sums: the frame being built, a sequence of rows
    pos,          \* proc_sums: index of the next subset of the loop
    err,          \* proc_sums: the exception raised, if any
    left,         \* indicate_merge: argument left (columns and rows)
    right,        \* indicate_merge: argument right (columns and rows)
    how,          \* indicate_merge: argument how
    on,           \* indicate_merge: argument on (a string or a list)
    m_pc,         \* indicate_merge: position of the call
    m_out,        \* indicate_merge: what the call returned and printed
    series,       \* classifiers: the element of the input Series
    display,      \* classifiers: argument display
    called,       \* classifiers: the function that was called
    grouped,      \* classifiers: the element of the returned array
    ref_from,     \* ref_day, ref_week, ref_tuesday: argument from_dates
    ref_to,       \* ref_day, ref_week, ref_tuesday: argument to_dates
    ref_called,   \* the reference function that was called
    ref_out,      \* what that call returned or raised
    call_fn,      \* utility functions: the function that was called
    call_args,    \* utility functions: the arguments of the call
    call_ret      \* utility functions: what the call returned or raised

calvars == <<window, from_dates, to_dates, wd_res, hd_res, we_res>>
aggvars == <<df, groups, values, agg_func, pc, agg, sum_df, pos, err>>
mergevars == <<left, right, how, on, m_pc, m_out>>
groupvars == <<series, display, called, grouped>>
refvars == <<ref_from, ref_to, ref_called, ref_out>>
utilvars == <<call_fn, call_args, call_ret>>
vars == <<calvars, aggvars, mergevars, groupvars, refvars, utilvars>>

\* What the steps of one part leave alone: the variables of the other parts.
NotCalendar == <<aggvars, mergevars, groupvars, refvars, utilvars>>
NotAggregation == <<calvars, mergevars, groupvars, refvars, utilvars>>
NotMerge == <<calvars, aggvars, groupvars, refvars, utilvars>>
NotGroups == <<calvars, aggvars, mergevars, refvars, utilvars>>
NotReference == <<calvars, aggvars, mergevars, groupvars, utilvars>>
NotUtilities == <<calvars, aggvars, mergevars, groupvars, refvars>>

\* Bounds of the calendar model.
MaxPairs == 2
WindowLen == 3

\* Bounds of the aggregation model.
MaxRows == 2
MaxGroups == 2

\* Bounds of the merge model.
MaxSideRows == 3
MaxKey == 2

\* Bounds of the classifier model.
MaxCount == 260
MaxCodeLen == 3

\* Bound of the reference model.
MaxRefPairs == 2

\* Bound of the interval model: the years after the first one.
MaxYearSpan == 2

\* Bounds of the model of categorize_ranges.
MaxObjLen == 2
MaxValue == 41

-----------------------------------------------------------------------------
(* The proleptic Gregorian calendar behind datetime64.                     *)

\* Day number of the civil date y-m-d.
DaysFromCivil(y, m, d) ==
    LET yy  == IF m <= 2 THEN y - 1 ELSE y
        era == yy \div 400
        yoe == yy - era * 400
        mp  == (m + 9) % 12
        doy == (153 * mp + 2) \div 5 + d - 1
        doe == yoe * 365 + yoe \div 4 - yoe \div 100 + doy
    IN  era * 146097 + doe - 719468

\* The year a day number lies in.
CivilYear(d) ==
    LET est == 1970 + (d * 400) \div 146097
    IN  CHOOSE y \in (est - 1)..(est + 1) :
            DaysFromCivil(y, 1, 1) <= d /\ d < DaysFromCivil(y + 1, 1, 1)

MonthOf(d) ==
    LET y == CivilYear(d)
    IN  CHOOSE m \in 1..12 :
            /\ DaysFromCivil(y, m, 1) <= d
            /\ d < (IF m = 12 THEN DaysFromCivil(y + 1, 1, 1)
                              ELSE DaysFromCivil(y, m + 1, 1))

DayOfMonth(d) == d - DaysFromCivil(CivilYear(d), MonthOf(d), 1) + 1

\* Weekday of a civil date from its year, month and day (Monday = 0 ..
\* Sunday = 6), by the tabular congruence; it uses no day number.
CivilWeekday(y, m, dd) ==
    LET t  == <<0, 3, 2, 5, 0, 3, 5, 1, 4, 6, 2, 4>>
        yy == IF m < 3 THEN y - 1 ELSE y
        s  == (yy + yy \div 4 - yy \div 100 + yy \div 400 + t[m] + dd) % 7
    IN  (s + 6) % 7


-----------------------------------------------------------------------------
(* The holiday provider: holidays.country_holidays("NO", years=...).       *)

\* Easter Sunday of a year (Gregorian computus), as a day number.
EasterSunday(y) ==
    LET a == y % 19
        b == y \div 100
        c == y % 100
        d == b \div 4
        e == b % 4
        f == (b + 8) \div 25
        g == (b - f + 1) \div 3
        h == (19 * a + b - d - g + 15) % 30
        i == c \div 4
        k == c % 4
        l == (32 + 2 * e + 2 * i - h - k) % 7
        m == (a + 11 * h + 22 * l) \div 451
        month == (h + l - 7 * m + 114) \div 31
        day   == ((h + l - 7 * m + 114) % 31) + 1
    IN  DaysFromCivil(y, month, day)

\* The public holidays of Norway in one year.
NorwayHolidays(y) ==
    LET e == EasterSunday(y)
    IN  { DaysFromCivil(y, 1, 1), e - 3, e - 2, e, e + 1,
          DaysFromCivil(y, 5, 1), DaysFromCivil(y, 5, 17),
          e + 39, e + 49, e + 50,
          DaysFromCivil(y, 12, 25), DaysFromCivil(y, 12, 26) }


\* First dates of the windows the generated batches are drawn from:
\* 2022-12-30, 2023-12-31, 1969-12-27, 1969-12-30.
Anchors ==
    { DaysFromCivil(2022, 12, 30), DaysFromCivil(2023, 12, 31),
      DaysFromCivil(1969, 12, 27), DaysFromCivil(1969, 12, 30) }

\* The batch of tests/test_workdays.py (sample_df).
SampleFrom ==
    << DaysFromCivil(2023, 1, 1), DaysFromCivil(2023, 12, 20),
       DaysFromCivil(2024, 5, 3) >>
SampleTo ==
    << DaysFromCivil(2023, 1, 10), DaysFromCivil(2024, 1, 5),
       DaysFromCivil(2024, 5, 31) >>

\* Every date a batch of the model can hold, and the years they lie in.
ModelDates ==
    UNION { a..(a + WindowLen - 1) : a \in Anchors }
        \cup (SampleFrom[1]..SampleTo[3])
ModelYears == { CivilYear(d) : d \in ModelDates }

\* The calendar facts of the model's dates, tabulated once.
YearTable == [d \in ModelDates |-> CivilYear(d)]
WeekdayTable ==
    [d \in ModelDates |-> CivilWeekday(CivilYear(d), MonthOf(d), DayOfMonth(d))]
HolidayTable == [y \in ModelYears |-> NorwayHolidays(y)]

\* dates.astype("datetime64[Y]").astype(int) + 1970
YearOf(d) == YearTable[d]

\* holidays.country_holidays("NO", years=...).keys()
country_holidays(years) == UNION { HolidayTable[y] : y \in years }

WeekdayOfDate(d) == WeekdayTable[d]
IsSatOrSun(d) == WeekdayOfDate(d) \in {5, 6}
IsHoliday(d) == d \in HolidayTable[YearOf(d)]

-----------------------------------------------------------------------------
(* Helpers over series.                                                    *)

RECURSIVE SeqMin(_)
SeqMin(s) ==
    IF Len(s) = 1 THEN s[1]
    ELSE LET r == SeqMin(Tail(s)) IN IF s[1] < r THEN s[1] ELSE r

RECURSIVE SeqMax(_)
SeqMax(s) ==
    IF Len(s) = 1 THEN s[1]
    ELSE LET r == SeqMax(Tail(s)) IN IF s[1] > r THEN s[1] ELSE r

NotCalled == [status |-> "none"]
Raised(e) == [status |-> e]
Returned(c) == [status |-> "ok", counts |-> c]

-----------------------------------------------------------------------------
(* functions/workdays.py                                                   *)

\* from_years / to_years: the year of each date of a series.
years_of(s) == [i \in 1..Len(s) |-> YearOf(s[i])]

\* Variant of holiday_years that asks the provider for min_year only.
holiday_years_min_only(from_s, to_s) == {SeqMin(years_of(from_s))}

\* The years argument handed to the holiday provider: min_year alone when
\* min_year = max_year, else range(min_year, max_year + 1).
holiday_years(from_s, to_s) ==
    LET min_year == SeqMin(years_of(from_s))
        max_year == SeqMax(years_of(to_s))
    IN  IF min_year = max_year THEN {min_year} ELSE min_year..max_year

\* holiday_dates: the sorted keys of the provider's answer.
holiday_dates(from_s, to_s) == country_holidays(holiday_years(from_s, to_s))

\* Variant of date_range built from the first pair instead of the batch's
\* earliest from-date and latest to-date.
date_range_first_pair(from_s, to_s) == from_s[1]..to_s[1]

\* np.arange(min_date, max_date + 1 day): empty when min_date > max_date.
date_range(from_s, to_s) == SeqMin(from_s)..SeqMax(to_s)

\* Variant of weekday_index with a shift of 3 instead of 4.
weekday_index_shift3(d) == (d - 3) % 7

\* (dates.view("int64") - 4) % 7, numpy's floored modulo.
weekday_index(d) == (d - 4) % 7

\* np.isin(weekday_index, [5, 6])
is_weekend(d) == weekday_index(d) \in {5, 6}

\* Variant of in_range that takes the two bounds in either order.
in_range_unordered(arr, from_date, to_date) ==
    {w \in arr : \/ (w >= from_date /\ w <= to_date)
                 \/ (w >= to_date /\ w <= from_date)}

\* arr[(arr >= from_date) & (arr <= to_date)]
in_range(arr, from_date, to_date) ==
    {w \in arr : w >= from_date /\ w <= to_date}

\* One count per (from, to) pair of the zipped series.
counts_per_pair(arr, from_s, to_s) ==
    [i \in 1..Len(from_s) |-> Cardinality(in_range(arr, from_s[i], to_s[i]))]

\* The workdays array: dates neither in holiday_dates nor on a weekend.
workdays(from_s, to_s) ==
    {d \in date_range(from_s, to_s) :
        d \notin holiday_dates(from_s, to_s) /\ ~is_weekend(d)}

\* The weekenddays array: dates on a weekend.
weekenddays(from_s, to_s) ==
    {d \in date_range(from_s, to_s) : is_weekend(d)}

\* np.min / np.max of an empty array raise ValueError.
count_workdays(from_s, to_s) ==
    IF Len(from_s) = 0 THEN Raised("ValueError")
    ELSE Returned(counts_per_pair(workdays(from_s, to_s), from_s, to_s))

\* Variant of count_holidays that leaves out the holidays on a weekend.
count_holidays_skip_weekend(from_s, to_s) ==
    IF Len(from_s) = 0 THEN Raised("ValueError")
    ELSE Returned(counts_per_pair(
             {h \in holiday_dates(from_s, to_s) : ~is_weekend(h)}, from_s, to_s))


count_holidays(from_s, to_s) ==
    IF Len(from_s) = 0 THEN Raised("ValueError")
    ELSE Returned(counts_per_pair(holiday_dates(from_s, to_s), from_s, to_s))

count_weekenddays(from_s, to_s) ==
    IF Len(from_s) = 0 THEN Raised("ValueError")
    ELSE Returned(counts_per_pair(weekenddays(from_s, to_s), from_s, to_s))

-----------------------------------------------------------------------------
(* Calls of the three counters on one batch of date pairs.                 *)

\* No utility function has been given anything.
UtilIdle ==
    /\ call_fn = "none"
    /\ call_args = << >>
    /\ call_ret = NotCalled

\* No reference function has been given anything.
RefIdle ==
    /\ ref_from = << >>
    /\ ref_to = << >>
    /\ ref_called = "none"
    /\ ref_out = NotCalled

\* No classifier has been given anything.
GroupsIdle ==
    /\ series = << >>
    /\ display = "none"
    /\ called = "none"
    /\ grouped = << >>

\* No call of indicate_merge is under way.
MergeIdle ==
    /\ left = << >>
    /\ right = << >>
    /\ how = "none"
    /\ on = << >>
    /\ m_pc = "idle"
    /\ m_out = << >>

\* No call of proc_sums is under way.
AggIdle ==
    /\ df = << >>
    /\ groups = << >>
    /\ values = [given |-> FALSE, cols |-> << >>]
    /\ agg_func = [given |-> FALSE, map |-> << >>]
    /\ pc = "idle"
    /\ agg = << >>
    /\ sum_df = << >>
    /\ pos = 0
    /\ err = [kind |-> "none", columns |-> {}]

NoCallYet ==
    wd_res = NotCalled /\ hd_res = NotCalled /\ we_res = NotCalled

InitCal ==
    /\ \/ /\ \E a \in Anchors : window = a..(a + WindowLen - 1)
          /\ from_dates = << >>
          /\ to_dates = << >>
       \/ /\ window = {}
          /\ from_dates = SampleFrom
          /\ to_dates = SampleTo
    /\ wd_res = NotCalled
    /\ hd_res = NotCalled
    /\ we_res = NotCalled
    /\ AggIdle
    /\ MergeIdle
    /\ GroupsIdle
    /\ RefIdle
    /\ UtilIdle

\* The caller appends one (from, to) pair to the argument series.
AddPair ==
    /\ NoCallYet
    /\ Len(from_dates) < MaxPairs
    /\ \E f \in window, t \in window :
          /\ from_dates' = Append(from_dates, f)
          /\ to_dates' = Append(to_dates, t)
    /\ UNCHANGED <<window, wd_res, hd_res, we_res>>
    /\ UNCHANGED NotCalendar

CallCountWorkdays ==
    /\ wd_res = NotCalled
    /\ wd_res' = count_workdays(from_dates, to_dates)
    /\ UNCHANGED <<window, from_dates, to_dates, hd_res, we_res>>
    /\ UNCHANGED NotCalendar

CallCountHolidays ==
    /\ hd_res = NotCalled
    /\ hd_res' = count_holidays(from_dates, to_dates)
    /\ UNCHANGED <<window, from_dates, to_dates, wd_res, we_res>>
    /\ UNCHANGED NotCalendar

CallCountWeekenddays ==
    /\ we_res = NotCalled
    /\ we_res' = count_weekenddays(from_dates, to_dates)
    /\ UNCHANGED <<window, from_dates, to_dates, wd_res, hd_res>>
    /\ UNCHANGED NotCalendar

NextCal ==
    \/ AddPair
    \/ CallCountWorkdays
    \/ CallCountHolidays
    \/ CallCountWeekenddays

SpecCal == InitCal /\ [][NextCal]_vars

-----------------------------------------------------------------------------
(* functions/aggregation.py: proc_sums(df, groups, values, agg_func).      *)

NA == "NaN"        \* a missing value (NaN / None) of a column
Total == "Total"   \* the constant written into the inactive group columns

\* df.columns, and the columns pd.api.types.is_numeric_dtype accepts.
Columns == {"A", "B", "G", "C", "E"}
NumericColumns == {"C"}

\* The strings of the grouping columns in the order groupby sorts them.
ValueOrder == <<"Total", "bar", "foo", "g", "one", "two">>
Rank(v) == CHOOSE i \in 1..Len(ValueOrder) : ValueOrder[i] = v

\* The rows a generated table is made of.
RowSet ==
    [A : {"bar", "foo", NA}, B : {"one", NA}, G : {"g"}, C : {1, 2},
     E : {"1"}]

RowOf(a, b, c, e) == [A |-> a, B |-> b, G |-> "g", C |-> c, E |-> e]

\* sample_df of tests/test_aggregation.py (columns A, B, C, E) with the
\* constant column G beside them.
SampleDf ==
    << RowOf("foo", "one", 1, "1"), RowOf("foo", "one", 2, "0"),
       RowOf("foo", "two", 3, "1"), RowOf("bar", "two", 4, "1"),
       RowOf("bar", "two", 5, "0"), RowOf("bar", "two", 6, "1") >>

\* Optional arguments: None or a given object.
NoValues == [given |-> FALSE, cols |-> << >>]
ValuesList(cols) == [given |-> TRUE, cols |-> cols]
NoAggFunc == [given |-> FALSE, map |-> << >>]
AggDict(map) == [given |-> TRUE, map |-> map]

\* An entry of agg_func: one function, or a list of functions.
Func(f) == [list |-> FALSE, funcs |-> <<f>>]
FuncList(fs) == [list |-> TRUE, funcs |-> fs]

Range(seq) == {seq[i] : i \in 1..Len(seq)}

\* Lines 52-57: values, as given or else the keys of agg_func or else [].
resolved_values(vals, aggf) ==
    IF vals.given THEN Range(vals.cols)
    ELSE IF aggf.given THEN DOMAIN aggf.map
    ELSE {}

\* Line 60: required_columns = set(groups + values).
required_columns(grps, vals, aggf) ==
    Range(grps) \cup resolved_values(vals, aggf)

\* Variant of missing_columns that stops at the first column not found.
missing_columns_first_only(grps, vals, aggf) ==
    LET all == {col \in required_columns(grps, vals, aggf) : col \notin Columns}
    IN  IF all = {} THEN {} ELSE {CHOOSE col \in all : TRUE}

\* Lines 67-69: the required columns that are not in df.columns.
missing_columns(grps, vals, aggf) ==
    {col \in required_columns(grps, vals, aggf) : col \notin Columns}

\* Lines 70-71: the value columns of the table that are not numeric.
non_numeric_cols(grps, vals, aggf) ==
    {col \in required_columns(grps, vals, aggf) :
        /\ col \in Columns
        /\ col \in resolved_values(vals, aggf)
        /\ col \notin NumericColumns}

\* Lines 73-81: the exception raised by the checks, if any.
validation_error(grps, vals, aggf) ==
    IF missing_columns(grps, vals, aggf) # {}
    THEN [kind |-> "missing", columns |-> missing_columns(grps, vals, aggf)]
    ELSE IF non_numeric_cols(grps, vals, aggf) # {} /\ ~aggf.given
    THEN [kind |-> "non_numeric",
          columns |-> non_numeric_cols(grps, vals, aggf)]
    ELSE [kind |-> "none", columns |-> {}]

\* Lines 85-88: a list of exactly one function is replaced by the function.
unwrapped(map) ==
    [col \in DOMAIN map |->
        IF map[col].list /\ Len(map[col].funcs) = 1
        THEN Func(map[col].funcs[1])
        ELSE map[col]]

\* Lines 84-91: the dict handed to .agg().
effective_agg(vals, aggf) ==
    IF aggf.given THEN unwrapped(aggf.map)
    ELSE [col \in resolved_values(vals, aggf) |-> Func("sum")]

\* Tuples of integers in lexicographic order.
TupleLess(a, b) ==
    \E j \in 1..Len(a) :
        a[j] < b[j] /\ \A m \in 1..(j - 1) : a[m] = b[m]

RECURSIVE SortTuples(_)
SortTuples(S) ==
    IF S = {} THEN << >>
    ELSE LET least == CHOOSE x \in S : \A y \in S \ {x} : TupleLess(x, y)
         IN  <<least>> \o SortTuples(S \ {least})

\* itertools.combinations(groups, i): the i-element subsequences of groups
\* in lexicographic order of their positions.
combinations(grps, i) ==
    LET n == Len(grps)
        picks == {t \in [1..i -> 1..n] : \A j \in 1..(i - 1) : t[j] < t[j + 1]}
        order == SortTuples(picks)
    IN  [c \in 1..Len(order) |-> [j \in 1..i |-> grps[order[c][j]]]]

\* Lines 112-113: the subsets in the order the two loops visit them.
RECURSIVE subsets_from(_, _)
subsets_from(grps, i) ==
    IF i > Len(grps) THEN << >>
    ELSE combinations(grps, i) \o subsets_from(grps, i + 1)

loop_subsets(grps) == subsets_from(grps, 1)

RECURSIVE SumOver(_, _, _)
SumOver(frame, rows, col) ==
    IF rows = {} THEN 0
    ELSE LET i == CHOOSE x \in rows : TRUE
         IN  frame[i][col] + SumOver(frame, rows \ {i}, col)

\* "count": the number of rows of the group whose value is not missing
\* (the numeric column of the model holds no missing value).
count_of(frame, rows, col) ==
    IF col \in NumericColumns THEN Cardinality(rows)
    ELSE Cardinality({i \in rows : frame[i][col] # NA})

\* Variant of aggregate that counts the rows whatever the function is.
aggregate_count(fn, frame, rows, col) == count_of(frame, rows, col)

\* One aggregation function applied to a column of the rows of one group.
aggregate(fn, frame, rows, col) ==
    IF fn.funcs[1] = "sum" THEN SumOver(frame, rows, col)
    ELSE count_of(frame, rows, col)

\* frame.groupby(by).agg(aggd).reset_index(), then "Total" in the group
\* columns outside by and the level column: the rows with a missing key
\* are dropped (dropna), the groups come sorted by key.
groupby_agg(frame, by, aggd, allgroups, level) ==
    LET kept == {i \in 1..Len(frame) :
                    \A j \in 1..Len(by) : frame[i][by[j]] # NA}
        KeyAt(i) == [j \in 1..Len(by) |-> Rank(frame[i][by[j]])]
        sorted == SortTuples({KeyAt(i) : i \in kept})
        PosOf(g) == CHOOSE j \in 1..Len(by) : by[j] = g
    IN  [n \in 1..Len(sorted) |->
            [keys |-> [g \in allgroups |->
                          IF g \in Range(by)
                          THEN ValueOrder[sorted[n][PosOf(g)]]
                          ELSE Total],
             vals |-> [col \in DOMAIN aggd |->
                          aggregate(aggd[col], frame,
                                    {i \in kept : KeyAt(i) = sorted[n]}, col)],
             level |-> level]]

\* Lines 96-100: totals_df, the table with "Total" in every group column.
totals_df(frame, grps) ==
    [i \in 1..Len(frame) |->
        [col \in DOMAIN frame[i] |->
            IF col \in Range(grps) THEN Total ELSE frame[i][col]]]

\* Variant of level0 that aggregates the whole table directly and so
\* yields a grand-total row for an empty table too.
level0_whole_table(frame, grps, aggd) ==
    << [keys |-> [g \in Range(grps) |-> Total],
        vals |-> [col \in DOMAIN aggd |->
                     aggregate(aggd[col], frame, 1..Len(frame), col)],
        level |-> 0] >>

\* Lines 102-106: the level-0 frame.
level0(frame, grps, aggd) ==
    groupby_agg(totals_df(frame, grps), grps, aggd, Range(grps), 0)

\* Lines 114-124: the frame of one subset of the loop.
sub_sum(frame, grps, subset, aggd) ==
    groupby_agg(frame, subset, aggd, Range(grps), Len(subset))

\* Variant of concat that puts the new frame in front.
concat_in_front(a, b) == b \o a

\* Line 126: pd.concat([sum_df, sub_sum], ignore_index=True).
concat(a, b) == a \o b

-----------------------------------------------------------------------------
(* Calls of proc_sums.                                                     *)

RECURSIVE Arrangements(_, _)
Arrangements(S, n) ==
    IF n = 0 THEN {<< >>}
    ELSE {Append(a, x) : a \in Arrangements(S, n - 1), x \in S}

\* The groups lists over the table's grouping columns, without repeats.
GroupLists ==
    {g \in UNION {Arrangements({"A", "B", "G"}, n) : n \in 1..MaxGroups} :
        \A i, j \in 1..Len(g) : i # j => g[i] # g[j]}

\* The calls with values = ["C"] and no agg_func.
PlainRequests ==
    {[groups |-> g, values |-> ValuesList(<<"C">>), agg_func |-> NoAggFunc] :
        g \in GroupLists}

\* Calls with names that are not columns, with a non-numeric value column,
\* and with an agg_func dictionary.
OtherRequests ==
    { [groups |-> <<"A", "Y">>, values |-> ValuesList(<<"E", "Z">>),
       agg_func |-> NoAggFunc],
      [groups |-> <<"Y", "A">>, values |-> ValuesList(<<"C">>),
       agg_func |-> NoAggFunc],
      [groups |-> <<"A">>, values |-> ValuesList(<<"E">>),
       agg_func |-> NoAggFunc],
      [groups |-> <<"A">>, values |-> ValuesList(<<"C", "E">>),
       agg_func |-> AggDict("C" :> Func("sum"))],
      [groups |-> <<"A", "B">>, values |-> NoValues,
       agg_func |-> AggDict("C" :> FuncList(<<"sum">>))],
      [groups |-> <<"B">>, values |-> NoValues,
       agg_func |-> AggDict("E" :> Func("count"))],
      [groups |-> <<"B">>, values |-> NoValues,
       agg_func |-> AggDict("Z" :> Func("sum"))] }

Requests == PlainRequests \cup OtherRequests

CalIdle ==
    /\ window = {}
    /\ from_dates = << >>
    /\ to_dates = << >>
    /\ wd_res = NotCalled
    /\ hd_res = NotCalled
    /\ we_res = NotCalled

InitAgg ==
    /\ CalIdle
    /\ MergeIdle
    /\ GroupsIdle
    /\ RefIdle
    /\ UtilIdle
    /\ df \in {<< >>, SampleDf}
    /\ \E r \in Requests :
          /\ groups = r.groups
          /\ values = r.values
          /\ agg_func = r.agg_func
    /\ pc = "input"
    /\ agg = << >>
    /\ sum_df = << >>
    /\ pos = 0
    /\ err = [kind |-> "none", columns |-> {}]

\* Rows are appended in one fixed order of RowSet: groupby sorts the groups
\* and the aggregations do not depend on the order of the rows.
RowKey(r) == <<Rank(IF r.A = NA THEN "two" ELSE r.A),
               Rank(IF r.B = NA THEN "two" ELSE r.B), r.C>>

\* The caller's table gets one more row.
AddRow ==
    /\ pc = "input"
    /\ Len(df) < MaxRows
    /\ \E r \in RowSet :
          /\ df # << >> =>
                (RowKey(df[Len(df)]) = RowKey(r)
                 \/ TupleLess(RowKey(df[Len(df)]), RowKey(r)))
          /\ df' = Append(df, r)
    /\ UNCHANGED <<groups, values, agg_func, pc, agg, sum_df, pos, err>>
    /\ UNCHANGED NotAggregation

\* Lines 52-81: the checks of the arguments.
CallProcSums ==
    /\ pc = "input"
    /\ err' = validation_error(groups, values, agg_func)
    /\ pc' = IF err'.kind = "none" THEN "checked" ELSE "error"
    /\ UNCHANGED <<df, groups, values, agg_func, agg, sum_df, pos>>
    /\ UNCHANGED NotAggregation

\* Lines 83-106: agg_func is settled and the level-0 frame computed.
Level0 ==
    /\ pc = "checked"
    /\ agg' = effective_agg(values, agg_func)
    /\ agg_func' = IF agg_func.given THEN AggDict(unwrapped(agg_func.map))
                                     ELSE agg_func
    /\ sum_df' = level0(df, groups, agg')
    /\ pos' = 1
    /\ pc' = "loop"
    /\ UNCHANGED <<df, groups, values, err>>
    /\ UNCHANGED NotAggregation

\* Lines 112-126: one pass of the loop over the subsets.
SubsetStep ==
    /\ pc = "loop"
    /\ pos <= Len(loop_subsets(groups))
    /\ sum_df' = concat(sum_df,
                        sub_sum(df, groups, loop_subsets(groups)[pos], agg))
    /\ pos' = pos + 1
    /\ UNCHANGED <<df, groups, values, agg_func, pc, agg, err>>
    /\ UNCHANGED NotAggregation

\* Line 127: return sum_df.
Return ==
    /\ pc = "loop"
    /\ pos > Len(loop_subsets(groups))
    /\ pc' = "done"
    /\ UNCHANGED <<df, groups, values, agg_func, agg, sum_df, pos, err>>
    /\ UNCHANGED NotAggregation

NextAgg ==
    \/ AddRow
    \/ CallProcSums
    \/ Level0
    \/ SubsetStep
    \/ Return

SpecAgg == InitAgg /\ [][NextAgg]_vars

-----------------------------------------------------------------------------
(* Properties of the three counters.                                       *)

Pairs == 1..Len(from_dates)
Ordered(i) == from_dates[i] <= to_dates[i]
Inverted(i) == from_dates[i] > to_dates[i]
DaysOf(i) == from_dates[i]..to_dates[i]
AllCounted ==
    wd_res.status = "ok" /\ hd_res.status = "ok" /\ we_res.status = "ok"
TotalOf(i) == wd_res.counts[i] + hd_res.counts[i] + we_res.counts[i]
WeekendHolidaysOf(i) == {d \in DaysOf(i) : IsHoliday(d) /\ IsSatOrSun(d)}

C3_Workdays ==
    wd_res.status = "ok" =>
        /\ \A i \in Pairs :
              Ordered(i) =>
                  wd_res.counts[i] =
                      Cardinality({d \in DaysOf(i) :
                                      ~IsSatOrSun(d) /\ ~IsHoliday(d)})
        /\ (from_dates = SampleFrom /\ to_dates = SampleTo)
              => wd_res.counts = <<7, 10, 18>>

\* C3 witness: count_workdays has run on two rows, the second an ordered
\* row that starts after the first row and holds a workday, a weekend day
\* and a holiday.
C3_Witness ==
    /\ wd_res.status = "ok"
    /\ Len(from_dates) = 2
    /\ Ordered(2)
    /\ Inverted(1)
    /\ wd_res.counts[2] > 0
    /\ \E d \in DaysOf(2) : IsSatOrSun(d)
    /\ \E d \in DaysOf(2) : IsHoliday(d) /\ ~IsSatOrSun(d)

\* The dates the calendar of the current batch is made of.
BatchDates ==
    IF Len(from_dates) = 0 THEN {}
    ELSE date_range(from_dates, to_dates)
         \cup {from_dates[i] : i \in Pairs} \cup {to_dates[i] : i \in Pairs}

\* C4: (d - 4) mod 7 is the weekday index (Monday = 0 .. Sunday = 6) of
\* day number d, before the epoch too, so the weekend test holds exactly
\* on Saturdays and Sundays; it is false for day 0 and agrees on d and
\* d + 7; count_weekenddays therefore counts the Saturdays and Sundays.
C4_WeekdayIndex ==
    /\ \A d \in BatchDates :
          /\ weekday_index(d) = WeekdayOfDate(d)
          /\ is_weekend(d) <=> IsSatOrSun(d)
          /\ is_weekend(d) <=> is_weekend(d + 7)
    /\ Len(from_dates) > 0 => ~is_weekend(0)
    /\ we_res.status = "ok" =>
          \A i \in Pairs :
              we_res.counts[i] = Cardinality({d \in DaysOf(i) : IsSatOrSun(d)})

\* C4 witness: count_weekenddays has counted a Saturday that lies before
\* the epoch.
C4_Witness ==
    /\ we_res.status = "ok"
    /\ \E i \in Pairs :
          /\ we_res.counts[i] > 0
          /\ \E d \in DaysOf(i) : d < 0 /\ WeekdayOfDate(d) = 5

ZeroOnInverted(res) ==
    res # NotCalled =>
        /\ res.status = "ok"
        /\ \A i \in Pairs : Inverted(i) => res.counts[i] = 0

\* C5: in each of the three counters a row with from > to yields 0 and the
\* call raises nothing, also when every row of the batch is inverted.
C5_InvertedRows ==
    Len(from_dates) > 0 =>
        /\ ZeroOnInverted(wd_res)
        /\ ZeroOnInverted(hd_res)
        /\ ZeroOnInverted(we_res)

\* C5 witness: the three counters have run on a batch of two inverted rows
\* whose latest to-date lies before the earliest from-date and in an
\* earlier year.
C5_Witness ==
    /\ AllCounted
    /\ Len(from_dates) = 2
    /\ SeqMax(to_dates) < SeqMin(from_dates)
    /\ SeqMax(years_of(to_dates)) < SeqMin(years_of(from_dates))
    /\ to_dates[1] # to_dates[2]

-----------------------------------------------------------------------------
(* Properties of proc_sums.                                                *)

GroupSet == Range(groups)
OutRows == 1..Len(sum_df)

\* The grouping columns of an output row that do not hold "Total".
ActiveOf(row) == {g \in GroupSet : row.keys[g] # Total}

\* The input rows that agree with an output row on its active columns.
RowsBehind(row) ==
    {i \in 1..Len(df) : \A g \in ActiveOf(row) : df[i][g] = row.keys[g]}

\* The combinations of non-missing values of the columns S among the input
\* rows.
CombosOf(S) ==
    { [g \in S |-> df[i][g]] :
        i \in {j \in 1..Len(df) : \A g \in S : df[j][g] # NA} }

\* The output rows produced for the subset S of the grouping columns.
RowsFor(S) == {n \in OutRows : ActiveOf(sum_df[n]) = S}

\* C6 (as stated): every output row carries level = |S| for the set S of
\* its columns that do not hold "Total", a row below level N holds at
\* least one "Total", and on a non-empty table the levels present are
\* exactly 0..N.
C6_LevelsAsStated ==
    pc = "done" =>
        /\ \A n \in OutRows :
              /\ sum_df[n].level = Cardinality(ActiveOf(sum_df[n]))
              /\ sum_df[n].level < Len(groups)
                    => \E g \in GroupSet : sum_df[n].keys[g] = Total
        /\ df # << >> => {sum_df[n].level : n \in OutRows} = 0..Len(groups)

C8_DefaultSum ==
    (pc = "done" /\ ~agg_func.given) =>
        /\ \A n \in OutRows :
              /\ DOMAIN sum_df[n].vals = Range(values.cols)
              /\ \A col \in DOMAIN sum_df[n].vals :
                    sum_df[n].vals[col] = SumOver(df, RowsBehind(sum_df[n]), col)
        /\ (df = SampleDf /\ groups = <<"A", "B">>) =>
              /\ sum_df[1] = [keys |-> [A |-> Total, B |-> Total],
                              vals |-> [C |-> 21], level |-> 0]
              /\ \E n \in OutRows :
                    sum_df[n] = [keys |-> [A |-> "bar", B |-> Total],
                                 vals |-> [C |-> 15], level |-> 1]
              /\ \E n \in OutRows :
                    sum_df[n] = [keys |-> [A |-> "foo", B |-> Total],
                                 vals |-> [C |-> 6], level |-> 1]
              /\ \E n \in OutRows :
                    sum_df[n] = [keys |-> [A |-> "bar", B |-> "two"],
                                 vals |-> [C |-> 15], level |-> 2]

\* C8 witness: proc_sums has returned, without agg_func, a row that sums
\* two input rows and leaves a third one out.
C8_Witness ==
    /\ pc = "done"
    /\ ~agg_func.given
    /\ \E n \in OutRows :
          /\ Cardinality(RowsBehind(sum_df[n])) = 2
          /\ Len(df) > 2
          /\ sum_df[n].vals["C"] = 3

\* Position of an output row's subset in the order of enumeration: 0 for
\* the empty subset, then the position in the loop.
SubsetIndex(row) ==
    IF ActiveOf(row) = {} THEN 0
    ELSE CHOOSE q \in 1..Len(loop_subsets(groups)) :
             Range(loop_subsets(groups)[q]) = ActiveOf(row)

\* C9: the returned rows are ordered by non-decreasing level, the
\* grand-total row first, and within one level by the order in which the
\* subsets are enumerated from groups.
C9_RowOrder ==
    pc = "done" =>
        /\ \A m, n \in OutRows :
              m < n =>
                  /\ sum_df[m].level <= sum_df[n].level
                  /\ SubsetIndex(sum_df[m]) <= SubsetIndex(sum_df[n])
        /\ df # << >> => sum_df[1].level = 0

\* C9 witness: proc_sums has returned rows of levels 0, 1 and 2, among
\* them rows of both subsets of size 1.
C9_Witness ==
    /\ pc = "done"
    /\ Len(groups) = 2
    /\ {sum_df[n].level : n \in OutRows} = {0, 1, 2}
    /\ \A g \in GroupSet : \E n \in OutRows : ActiveOf(sum_df[n]) = {g}

\* The names asked for by the call, and those that are no column.
AskedNames ==
    GroupSet \cup (IF values.given THEN Range(values.cols)
                   ELSE IF agg_func.given THEN DOMAIN agg_func.map
                   ELSE {})
NotColumns == AskedNames \ Columns

\* C10: when a name of groups or values is no column of the table, the call
\* fails with one error that names every missing column, before anything is
\* aggregated and with no partial result, also when a value column is not
\* numeric.
C10_MissingColumns ==
    (pc \notin {"idle", "input"} /\ NotColumns # {}) =>
        /\ pc = "error"
        /\ err.kind = "missing"
        /\ err.columns = NotColumns
        /\ sum_df = << >>
        /\ agg = << >>

\* C10 witness: the call has failed on two missing columns while a value
\* column of the table is not numeric.
C10_Witness ==
    /\ pc = "error"
    /\ err.kind = "missing"
    /\ Cardinality(err.columns) = 2
    /\ values.given
    /\ \E col \in Range(values.cols) :
          col \in Columns /\ col \notin NumericColumns

\* The value columns of the table that are not numeric and for which
\* agg_func supplies no aggregation function.
Uncovered ==
    {col \in AskedNames \ GroupSet :
        /\ col \in Columns
        /\ col \notin NumericColumns
        /\ (~agg_func.given \/ col \notin DOMAIN agg_func.map)}

\* C11: when every asked name is a column and some value column is
\* non-numeric with no aggregation function supplied for it, the call fails
\* with an error that names every such column, also when agg_func is given
\* and covers only other columns.
C11_NonNumericAsStated ==
    (pc \notin {"idle", "input"} /\ NotColumns = {} /\ Uncovered # {}) =>
        /\ pc = "error"
        /\ err.kind = "non_numeric"
        /\ err.columns = Uncovered


\* ---------------------------------------------------------------------------
\* functions/merge.py: indicate_merge
\* ---------------------------------------------------------------------------

\* The value pandas puts in the columns of the side that has no row.
MissingValue == -1

\* A table is its column names, in order, and its rows, each a function
\* from the column names to values.
Table(cols, rows) == [columns |-> cols, rows |-> rows]

\* The column that holds the rows' own data: "a" on the left; on the right "b",
\* or "_merge" for a table that is itself the result of an indicator join.
LeftColumns == <<"id", "k2", "a">>
RightPayloads == {"b", "_merge"}
RightColumns(payload) == <<"id", "k2", payload>>

\* The ways the call names its key: a string, or a list of one or two names.
OnChoices ==
    { [is_str |-> TRUE, cols |-> <<"id">>],
      [is_str |-> FALSE, cols |-> <<"id">>],
      [is_str |-> FALSE, cols |-> <<"id", "k2">>] }

HowChoices == {"left", "right", "inner", "outer"}

\* The key of a row: its values in the key columns.
KeyOf(row, oncols) == [i \in 1..Len(oncols) |-> row[oncols[i]]]

\* pandas' suffixes for a column name found on both sides outside the key.
XName(c) == IF c = "k2" THEN "k2_x" ELSE c
YName(c) == IF c = "k2" THEN "k2_y" ELSE c

\* Flattening of a sequence of sequences.
RECURSIVE Flatten(_)
Flatten(ss) == IF ss = << >> THEN << >> ELSE Head(ss) \o Flatten(Tail(ss))

\* The indexes of the rows of a table with the given key, in row order.
RowsWithKey(t, oncols, key) ==
    LET hit(i) == KeyOf(t.rows[i], oncols) = key
        RECURSIVE from(_)
        from(i) == IF i > Len(t.rows) THEN << >>
                   ELSE (IF hit(i) THEN <<i>> ELSE << >>) \o from(i + 1)
    IN from(1)

\* The keys of both tables in ascending order, each once.
SortedKeys(l, r, oncols) ==
    LET keys == {KeyOf(l.rows[i], oncols) : i \in 1..Len(l.rows)} \cup
                {KeyOf(r.rows[i], oncols) : i \in 1..Len(r.rows)}
    IN SortTuples(keys)


\* The row pairs of pd.merge in result order; <<i, 0>> is left row i with no
\* partner, <<0, j>> right row j with no partner.  "left" and "inner" keep the
\* order of the left keys, "right" that of the right keys, "outer" sorts the
\* keys.
join_pairs(l, r, hw, oncols) ==
    LET lkey(i) == KeyOf(l.rows[i], oncols)
        rkey(j) == KeyOf(r.rows[j], oncols)
        pair_with(i, js) == [n \in 1..Len(js) |-> <<i, js[n]>>]
        with_left(is, j) == [n \in 1..Len(is) |-> <<is[n], j>>]
        left_block(i, keep) ==
            LET js == RowsWithKey(r, oncols, lkey(i))
            IN IF js = << >> THEN (IF keep THEN << <<i, 0>> >> ELSE << >>)
               ELSE pair_with(i, js)
        right_block(j) ==
            LET is == RowsWithKey(l, oncols, rkey(j))
            IN IF is = << >> THEN << <<0, j>> >> ELSE with_left(is, j)
        key_block(key) ==
            LET is == RowsWithKey(l, oncols, key)
                js == RowsWithKey(r, oncols, key)
            IN IF js = << >> THEN [n \in 1..Len(is) |-> <<is[n], 0>>]
               ELSE IF is = << >> THEN [n \in 1..Len(js) |-> <<0, js[n]>>]
               ELSE Flatten([n \in 1..Len(is) |-> pair_with(is[n], js)])
        sorted == SortedKeys(l, r, oncols)
    IN CASE hw = "inner" ->
                Flatten([i \in 1..Len(l.rows) |-> left_block(i, FALSE)])
         [] hw = "left" ->
                Flatten([i \in 1..Len(l.rows) |-> left_block(i, TRUE)])
         [] hw = "right" ->
                Flatten([j \in 1..Len(r.rows) |-> right_block(j)])
         [] hw = "outer" ->
                Flatten([n \in 1..Len(sorted) |-> key_block(sorted[n])])

\* Removal of the names in a set from a sequence of names.
Without(cols, names) == SelectSeq(cols, LAMBDA c : c \notin names)

\* pd.merge(left, right, how=how, on=on): the key columns, then the other
\* columns of the left table, then those of the right table; a name found on
\* both sides outside the key gets the suffix of its side, and the columns of
\* an absent side are missing values.
merge(l, r, hw, oncols) ==
    LET keyset == Range(oncols)
        overlap == (Range(l.columns) \cap Range(r.columns)) \ keyset
        lname(c) == IF c \in overlap THEN XName(c) ELSE c
        rname(c) == IF c \in overlap THEN YName(c) ELSE c
        lrest == Range(l.columns) \ keyset
        rrest == Range(r.columns) \ keyset
        rcols == Without(r.columns, keyset)
        outcols == [n \in 1..Len(l.columns) |-> lname(l.columns[n])] \o
                   [n \in 1..Len(rcols) |-> rname(rcols[n])]
        keypart(i, j) ==
            [c \in keyset |-> IF i # 0 THEN l.rows[i][c] ELSE r.rows[j][c]]
        lpart(i) ==
            [c \in {lname(c0) : c0 \in lrest} |->
                LET c0 == CHOOSE x \in lrest : lname(x) = c
                IN IF i # 0 THEN l.rows[i][c0] ELSE MissingValue]
        rpart(j) ==
            [c \in {rname(c0) : c0 \in rrest} |->
                LET c0 == CHOOSE x \in rrest : rname(x) = c
                IN IF j # 0 THEN r.rows[j][c0] ELSE MissingValue]
        pairs == join_pairs(l, r, hw, oncols)
    IN Table(outcols,
             [n \in 1..Len(pairs) |->
                 keypart(pairs[n][1], pairs[n][2]) @@ lpart(pairs[n][1])
                     @@ rpart(pairs[n][2])])


\* A table with one more column holding the same value in every row.
with_column(t, name, value) ==
    Table(Append(t.columns, name),
          [n \in 1..Len(t.rows) |-> t.rows[n] @@ (name :> value)])

\* DataFrame.drop(columns=names).
drop(t, names) ==
    Table(Without(t.columns, names),
          [n \in 1..Len(t.rows) |->
              [c \in (DOMAIN t.rows[n]) \ names |-> t.rows[n][c]]])

\* The names pd.merge needs for itself when indicator=True.
IndicatorNames == {"_left_indicator", "_right_indicator", "_merge"}

\* pd.merge(..., indicator=True) refuses tables that already use one of its
\* names.
indicator_clash(l, r) ==
    (Range(l.columns) \cup Range(r.columns)) \cap IndicatorNames # {}

\* The category of the sum of the two marker columns after fillna(0).
indicator_category(row) ==
    LET lmark == IF row["_left_indicator"] = MissingValue THEN 0
                 ELSE row["_left_indicator"]
        rmark == IF row["_right_indicator"] = MissingValue THEN 0
                 ELSE row["_right_indicator"]
    IN CASE lmark + rmark = 1 -> "left_only"
         [] lmark + rmark = 2 -> "right_only"
         [] lmark + rmark = 3 -> "both"

\* The marker columns of a joined table replaced by the column _merge.
replace_markers(marked) ==
    LET bare == drop(marked, {"_left_indicator", "_right_indicator"})
    IN Table(Append(bare.columns, "_merge"),
             [n \in 1..Len(bare.rows) |->
                 bare.rows[n] @@
                     ("_merge" :> indicator_category(marked.rows[n]))])

\* pd.merge(left, right, how=how, on=on, indicator=True) on tables without a
\* name clash: each side is marked, the marked tables are joined, and the
\* markers are replaced by the column _merge.
merge_indicator(l, r, hw, oncols) ==
    replace_markers(merge(with_column(l, "_left_indicator", 1),
                          with_column(r, "_right_indicator", 2), hw, oncols))

\* DataFrame.duplicated(subset=on, keep=False): the rows whose key occurs in
\* another row of the table too.
duplicated_any_row(t, oncols) ==
    [i \in 1..Len(t.rows) |-> Len(t.rows) > 1]
duplicated(t, oncols) ==
    [i \in 1..Len(t.rows) |->
        \E j \in 1..Len(t.rows) :
            j # i /\ KeyOf(t.rows[j], oncols) = KeyOf(t.rows[i], oncols)]

\* merged_df[on].isin(side.loc[duplicated, on].drop_duplicates()) when on is
\* a string, and the same over tuples of the key columns when on is a list.
duplicated_from(merged, side, o) ==
    LET dup == duplicated(side, o.cols)
        rows == {i \in 1..Len(side.rows) : dup[i]}
    IN IF o.is_str
       THEN LET col == o.cols[1]
                vals == {side.rows[i][col] : i \in rows}
            IN [n \in 1..Len(merged.rows) |-> merged.rows[n][col] \in vals]
       ELSE LET tuples == {KeyOf(side.rows[i], o.cols) : i \in rows}
            IN [n \in 1..Len(merged.rows) |->
                   KeyOf(merged.rows[n], o.cols) \in tuples]

\* The eight conditions, in order, for one joined row.
conditions_without_last(np_merge, dup_left, dup_right) ==
    << np_merge = "left_only" /\ ~dup_left,
       np_merge = "right_only" /\ ~dup_right,
       np_merge = "left_only" /\ dup_left,
       np_merge = "right_only" /\ dup_right,
       np_merge = "both" /\ ~dup_left /\ ~dup_right,
       np_merge = "both" /\ dup_left /\ ~dup_right,
       np_merge = "both" /\ ~dup_left /\ dup_right,
       FALSE >>
conditions(np_merge, dup_left, dup_right) ==
    << np_merge = "left_only" /\ ~dup_left,
       np_merge = "right_only" /\ ~dup_right,
       np_merge = "left_only" /\ dup_left,
       np_merge = "right_only" /\ dup_right,
       np_merge = "both" /\ ~dup_left /\ ~dup_right,
       np_merge = "both" /\ dup_left /\ ~dup_right,
       np_merge = "both" /\ ~dup_left /\ dup_right,
       np_merge = "both" /\ dup_right /\ dup_left >>

\* The labels, in the order of the conditions.
choices ==
    << "one-to-zero", "zero-to-one", "many-to-zero", "zero-to-many",
       "one-to-one", "many-to-one", "one-to-many", "many-to-many" >>

\* np.select(conditions, choices, default="unknown") for one row.
select(conds) ==
    IF \E k \in 1..Len(conds) : conds[k]
    THEN choices[CHOOSE k \in 1..Len(conds) :
                    conds[k] /\ \A m \in 1..(k - 1) : ~conds[m]]
    ELSE "unknown"

\* np.unique(merge_type, return_counts=True): each label present, with the
\* number of rows that carry it.
unique_counts(labels) ==
    [lab \in Range(labels) |->
        Cardinality({n \in 1..Len(labels) : labels[n] = lab})]


\* Lines of indicate_merge after the join: the duplicates of each side, the
\* conditions and labels of every joined row, the counts that are printed and
\* the table without the column _merge.
classify_merged(merged_df, l, r, o) ==
    LET np_merge == [n \in 1..Len(merged_df.rows) |->
                        merged_df.rows[n]["_merge"]]
        duplicated_from_left == duplicated_from(merged_df, l, o)
        duplicated_from_right == duplicated_from(merged_df, r, o)
        row_conditions ==
            [n \in 1..Len(merged_df.rows) |->
                conditions(np_merge[n], duplicated_from_left[n],
                           duplicated_from_right[n])]
        merge_type ==
            [n \in 1..Len(merged_df.rows) |-> select(row_conditions[n])]
    IN [status |-> "returned",
        table |-> drop(merged_df, {"_merge"}),
        conditions |-> row_conditions,
        merge_type |-> merge_type,
        printed |-> unique_counts(merge_type),
        total |-> Len(merged_df.rows)]

\* indicate_merge(left, right, how, on): what it returns and what it prints,
\* or the error of the indicator join.
indicate_merge(l, r, hw, o) ==
    IF indicator_clash(l, r)
    THEN [status |-> "raised", error |-> "ValueError"]
    ELSE classify_merged(merge_indicator(l, r, hw, o.cols), l, r, o)

\* The tables of a call start empty; the parameters of the call are chosen.
InitMerge ==
    /\ CalIdle
    /\ AggIdle
    /\ GroupsIdle
    /\ RefIdle
    /\ UtilIdle
    /\ left = Table(LeftColumns, << >>)
    /\ \E payload \in RightPayloads :
           right = Table(RightColumns(payload), << >>)
    /\ how \in HowChoices
    /\ on \in OnChoices
    /\ m_pc = "input"
    /\ m_out = << >>

\* One more row in the left table; its own data is its position.
AddLeftRow ==
    /\ m_pc = "input"
    /\ Len(left.rows) < MaxSideRows
    /\ \E key \in 1..MaxKey :
           left' = Table(left.columns,
                         Append(left.rows,
                                [id |-> key, k2 |-> 0,
                                 a |-> Len(left.rows) + 1]))
    /\ UNCHANGED <<right, how, on, m_pc, m_out>>
    /\ UNCHANGED NotMerge

\* One more row in the right table.
AddRightRow ==
    /\ m_pc = "input"
    /\ Len(right.rows) < MaxSideRows
    /\ \E key \in 1..MaxKey :
           right' = Table(right.columns,
                          Append(right.rows,
                                 ("id" :> key) @@ ("k2" :> 0) @@
                                 (right.columns[3] :> Len(right.rows) + 1)))
    /\ UNCHANGED <<left, how, on, m_pc, m_out>>
    /\ UNCHANGED NotMerge

\* The call of indicate_merge on the two tables.
CallIndicateMerge ==
    /\ m_pc = "input"
    /\ m_out' = indicate_merge(left, right, how, on)
    /\ m_pc' = IF m_out'.status = "raised" THEN "error" ELSE "done"
    /\ UNCHANGED <<left, right, how, on>>
    /\ UNCHANGED NotMerge

NextMerge == AddLeftRow \/ AddRightRow \/ CallIndicateMerge

SpecMerge == InitMerge /\ [][NextMerge]_vars


\* ---------------------------------------------------------------------------
\* Claims about indicate_merge
\* ---------------------------------------------------------------------------

\* The call of indicate_merge is over.
MergeCalled == m_pc \in {"done", "error"}

\* The plain join with the same parameters.
PlainJoin == merge(left, right, how, on.cols)

\* C12: for every left table, right table, key and join mode the call returns
\* exactly the table of the plain join with the same parameters: the same
\* rows in the same order and the same columns, none of them the indicator.
C12_PlainJoinAsStated ==
    MergeCalled =>
        /\ m_out.status = "returned"
        /\ m_out.table = PlainJoin

\* On tables that use none of the names of the indicator join, the call
\* returns the table of the plain join.
PlainJoinWithoutClash ==
    (MergeCalled /\ ~indicator_clash(left, right)) =>
        /\ m_out.status = "returned"
        /\ m_out.table = PlainJoin
        /\ "_merge" \notin Range(m_out.table.columns)

\* A join of two non-empty tables has been returned.
JoinedSomething ==
    /\ m_pc = "done"
    /\ Len(left.rows) > 1
    /\ Len(right.rows) > 1
    /\ Len(m_out.table.rows) > 2


\* The printed count of a label, zero when the label is not printed.
CountOf(lab) ==
    IF lab \in DOMAIN m_out.printed THEN m_out.printed[lab] ELSE 0

RECURSIVE SumCounts(_)
SumCounts(labs) ==
    IF labs = << >> THEN 0 ELSE CountOf(Head(labs)) + SumCounts(Tail(labs))

\* C13: in every join mode each joined row satisfies exactly one of the eight
\* conditions, the label "unknown" is never produced, and the eight printed
\* counts add up to the number of joined rows.
C13_EightCategories ==
    m_pc = "done" =>
        /\ \A n \in 1..m_out.total :
               /\ Cardinality({k \in 1..8 : m_out.conditions[n][k]}) = 1
               /\ m_out.merge_type[n] # "unknown"
        /\ DOMAIN m_out.printed \subseteq Range(choices)
        /\ SumCounts(choices) = m_out.total

\* A join in which both sides repeat the matched key.
C13_Witness ==
    /\ m_pc = "done"
    /\ m_out.total = 4
    /\ CountOf("many-to-many") = 4

\* The rows of a table that carry the key of a joined row.
Carriers(t, row) ==
    {i \in 1..Len(t.rows) : KeyOf(t.rows[i], on.cols) = KeyOf(row, on.cols)}

\* The label of a joined row told from the tables before the join: which of
\* them hold its key, and which hold it more than once.
LabelFromTables(row) ==
    LET nl == Cardinality(Carriers(left, row))
        nr == Cardinality(Carriers(right, row))
    IN CASE nr = 0 -> (IF nl > 1 THEN "many-to-zero" ELSE "one-to-zero")
         [] nl = 0 -> (IF nr > 1 THEN "zero-to-many" ELSE "zero-to-one")
         [] nl = 1 /\ nr = 1 -> "one-to-one"
         [] nl > 1 /\ nr = 1 -> "many-to-one"
         [] nl = 1 /\ nr > 1 -> "one-to-many"
         [] nl > 1 /\ nr > 1 -> "many-to-many"

C15_DocumentedLabels ==
    m_pc = "done" =>
        \A n \in 1..m_out.total :
            LET row == m_out.table.rows[n]
                nl == Cardinality(Carriers(left, row))
                nr == Cardinality(Carriers(right, row))
            IN /\ (nl = 0 /\ nr > 1) => m_out.merge_type[n] = "many-to-zero"
               /\ (nr = 0 /\ nl > 1) => m_out.merge_type[n] = "zero-to-many"


\* ---------------------------------------------------------------------------
\* Texts: a text of a code or a period is the sequence of its characters.
\* ---------------------------------------------------------------------------

DecimalDigits == <<"0", "1", "2", "3", "4", "5", "6", "7", "8", "9">>

is_digits(text) ==
    text # << >> /\ \A i \in 1..Len(text) : text[i] \in Range(DecimalDigits)

\* int(text) for a text of decimal digits.
RECURSIVE int(_)
int(text) ==
    IF text = << >> THEN 0
    ELSE LET last == text[Len(text)]
             value == CHOOSE d \in 0..9 : DecimalDigits[d + 1] = last
         IN 10 * int(SubSeq(text, 1, Len(text) - 1)) + value

\* str(n) for n >= 0.
RECURSIVE str(_)
str(n) ==
    IF n < 10 THEN <<DecimalDigits[n + 1]>>
    ELSE str(n \div 10) \o <<DecimalDigits[(n % 10) + 1]>>

\* text.zfill(width)
RECURSIVE zfill(_, _)
zfill(text, width) ==
    IF Len(text) >= width THEN text ELSE zfill(<<"0">> \o text, width)

\* The places where sep occurs in a text.
occurrences(text, sep) ==
    {i \in 1..(Len(text) - Len(sep) + 1) :
        SubSeq(text, i, i + Len(sep) - 1) = sep}

\* sep in text
contains(text, sep) == sep = << >> \/ occurrences(text, sep) # {}


\* ---------------------------------------------------------------------------
\* groups/age.py, groups/company_size.py, groups/shift_work.py,
\* groups/occupation.py: the classifiers, applied to one element of a Series
\* ---------------------------------------------------------------------------

\* np.select(conditions, results, default) for one element: the result of
\* the first condition that holds.
np_select(conds, results, default) ==
    IF \E k \in 1..Len(conds) : conds[k]
    THEN results[CHOOSE k \in 1..Len(conds) :
                    conds[k] /\ \A m \in 1..(k - 1) : ~conds[m]]
    ELSE default

\* The formats of a result; a text is the sequence of its parts, so
\* f"{key} {value}" is the key, a blank and the value, and "99 Uoppgitt" is
\* "99", a blank and "Uoppgitt".  Any display other than "label" and
\* "number" gives the combined format.
Displays == {"label", "number", "combined", "arblonn"}

results_of_without_blank(grps, disp) ==
    [n \in 1..Len(grps) |->
        IF disp = "label" THEN <<grps[n][2]>>
        ELSE IF disp = "number" THEN <<grps[n][1]>>
        ELSE <<grps[n][1], grps[n][2]>>]
results_of(grps, disp) ==
    [n \in 1..Len(grps) |->
        IF disp = "label" THEN <<grps[n][2]>>
        ELSE IF disp = "number" THEN <<grps[n][1]>>
        ELSE <<grps[n][1], " ", grps[n][2]>>]

\* alder_grp: conditions and groups.
alder_grp_conditions_without_66(alder) ==
    << alder >= 16 /\ alder <= 19, alder >= 20 /\ alder <= 24,
       alder >= 25 /\ alder <= 29, alder >= 30 /\ alder <= 34,
       alder >= 35 /\ alder <= 39, alder >= 40 /\ alder <= 44,
       alder >= 45 /\ alder <= 49, alder >= 50 /\ alder <= 54,
       alder >= 55 /\ alder <= 59, alder >= 60 /\ alder <= 64,
       alder = 65, alder = 67, alder = 68, alder = 69 >>
alder_grp_conditions(alder) ==
    << alder >= 16 /\ alder <= 19, alder >= 20 /\ alder <= 24,
       alder >= 25 /\ alder <= 29, alder >= 30 /\ alder <= 34,
       alder >= 35 /\ alder <= 39, alder >= 40 /\ alder <= 44,
       alder >= 45 /\ alder <= 49, alder >= 50 /\ alder <= 54,
       alder >= 55 /\ alder <= 59, alder >= 60 /\ alder <= 64,
       alder = 65 \/ alder = 66, alder = 67, alder = 68, alder = 69 >>

alder_grp_groups ==
    << <<"1", "16-19 år">>, <<"2", "20-24 år">>, <<"3", "25-29 år">>,
       <<"4", "30-34 år">>, <<"5", "35-39 år">>, <<"6", "40-44 år">>,
       <<"7", "45-49 år">>, <<"8", "50-54 år">>, <<"9", "55-59 år">>,
       <<"10", "60-64 år">>, <<"11", "65-66 år">>, <<"12", "67 år">>,
       <<"13", "68 år">>, <<"14", "69 år">> >>

alder_grp(alder, disp) ==
    np_select(alder_grp_conditions(alder),
              results_of(alder_grp_groups, disp), <<".">>)

\* alder_5grp: conditions and groups.
alder_5grp_conditions(alder) ==
    << alder >= 0 /\ alder <= 24, alder >= 25 /\ alder <= 39,
       alder >= 40 /\ alder <= 54, alder >= 55 /\ alder <= 66,
       alder >= 67 >>

alder_5grp_groups ==
    << <<"1", "-24">>, <<"2", "25-39">>, <<"3", "40-54">>,
       <<"4", "55-66">>, <<"5", "67+">> >>

alder_5grp(alder, disp) ==
    np_select(alder_5grp_conditions(alder),
              results_of(alder_5grp_groups, disp), <<"">>)

\* virk_str_8grp: conditions, groups and the default of each format.
virk_str_8grp_conditions(ansatte) ==
    << ansatte = 0, ansatte >= 1 /\ ansatte <= 4,
       ansatte >= 5 /\ ansatte <= 9, ansatte >= 10 /\ ansatte <= 19,
       ansatte >= 20 /\ ansatte <= 49, ansatte >= 50 /\ ansatte <= 99,
       ansatte >= 100 /\ ansatte <= 249, ansatte >= 250 >>

virk_str_8grp_groups ==
    << <<"1", "Ingen ansatte">>, <<"2", "1-4 ansatte">>,
       <<"3", "5-9 ansatte">>, <<"4", "10-19 ansatte">>,
       <<"5", "20-49 ansatte">>, <<"6", "50-99 ansatte">>,
       <<"7", "100-249 ansatte">>, <<"8", "250 ansatte og over">> >>

default_code(disp) ==
    IF disp = "label" THEN <<"Uoppgitt">>
    ELSE IF disp = "number" THEN <<"99">>
    ELSE <<"99", " ", "Uoppgitt">>

virk_str_8grp(ansatte, disp) ==
    np_select(virk_str_8grp_conditions(ansatte),
              results_of(virk_str_8grp_groups, disp), default_code(disp))


\* turnuskoder: an element is a string or a missing value.
ShiftCategories ==
    {"dogn355", "helkont336", "offshore336", "skift365", "andre_skift"}
Unknowns == {"-2", "", "-1"}

isna(elem) == elem.kind = "missing"
is_string_in(elem, strings) == elem.kind = "string" /\ elem.value \in strings

turnuskoder_conditions(elem) ==
    << is_string_in(elem, ShiftCategories),
       is_string_in(elem, {"ikke_skift"}),
       is_string_in(elem, Unknowns) \/ isna(elem) >>

turnuskoder_default_unknown(elem) ==
    np_select(turnuskoder_conditions(elem), <<"20", "25", "99">>, "99")
turnuskoder(elem) ==
    np_select(turnuskoder_conditions(elem), <<"20", "25", "99">>, "")

\* nyk08yrkeregsys1: a code is the sequence of its characters.
Digits == <<"1", "2", "3", "4", "5", "6", "7", "8", "9">>
CodeChars == Range(Digits) \cup {"0", "x"}

\* occupation_code.str[:n]
str_slice(code, n) == SubSeq(code, 1, IF Len(code) < n THEN Len(code) ELSE n)

\* occupation_code.str.startswith(prefix)
startswith(code, prefix) ==
    Len(code) >= Len(prefix) /\ SubSeq(code, 1, Len(prefix)) = prefix

valid_occupation_codes == {<<Digits[i]>> : i \in 1..9}

condition_1_without_3(code) ==
    str_slice(code, 2) \in {<<"0", "1">>, <<"0", "2">>, <<"0", "3">>}
condition_1(code) ==
    \/ str_slice(code, 2) \in {<<"0", "1">>, <<"0", "2">>, <<"0", "3">>}
    \/ startswith(code, <<"3">>)

condition_2(code) == str_slice(code, 1) \in valid_occupation_codes

nyk08yrkeregsys1(code) ==
    np_select(<<condition_1(code), condition_2(code)>>,
              << <<"3", "_", "0", "1", "-", "0", "3">>, str_slice(code, 1) >>,
              <<"0", "b">>)

\* nace_sn07_47grp.  nace_sn07.str.replace(".", "")
str_replace(text, old, new) ==
    IF new = << >> THEN SelectSeq(text, LAMBDA c : c # old)
    ELSE [i \in 1..Len(text) |-> IF text[i] = old THEN new ELSE text[i]]

\* pd.to_numeric of a text of digits
to_numeric(text) == int(text)

isin(value, list) == value \in Range(list)

nace_sn07_47grp_conditions(nace2, nace3) ==
    << isin(nace2, <<1, 2, 3>>),
       isin(nace2, <<5, 7, 8>>) \/ nace3 = 99,
       nace2 = 6 \/ nace3 = 91,
       isin(nace2, <<10, 11, 12>>), isin(nace2, <<13, 14, 15>>),
       isin(nace2, <<16, 17>>), nace2 = 18, isin(nace2, <<19, 20, 21>>),
       isin(nace2, <<22, 23>>), nace2 = 24, nace2 = 25,
       isin(nace2, <<26, 27>>), nace2 = 28,
       isin(nace2, <<29, 33>>) \/ (nace3 >= 302 /\ nace3 <= 309),
       nace3 = 301, isin(nace2, <<31, 32>>), nace2 = 35,
       nace2 >= 36 /\ nace2 <= 39, isin(nace2, <<41, 42, 43>>),
       nace2 = 45, nace2 = 46, nace2 = 47, nace2 = 49, nace2 = 50,
       nace2 = 51, nace2 = 52, nace2 = 53, nace2 = 55, nace2 = 56,
       isin(nace2, <<58, 59, 60>>), isin(nace2, <<61, 62, 63>>),
       nace2 = 64, nace2 = 65, nace2 = 66, nace2 = 68,
       isin(nace2, <<69, 70, 71>>), nace2 = 72, isin(nace2, <<73, 74, 75>>),
       nace2 >= 77 /\ nace2 <= 82, nace2 = 84, nace2 = 85, nace2 = 86,
       isin(nace2, <<87, 88>>), nace2 >= 90 /\ nace2 <= 93,
       isin(nace2, <<94, 95, 96>>), nace2 = 97, nace2 = 99 >>

nace_sn07_47grp_groups ==
    << <<"01", "Jordbruk, skogbruk, fiske; Bergverksdrift og utvinning, utenom olje og gass">>,
       <<"02", "Annen utvinning; Bygging av skip og båter; Reparasjon og installasjon av maskiner og utstyr; Uoppgitt utvinning">>,
       <<"03", "Olje- og gassutvinning; Uoppgitt utvinning av petroleum">>,
       <<"04", "Næringsmiddel-,drikkev.,tobakkind.">>,
       <<"05", "Tekstil-,bekledn.-,lærvareind.">>,
       <<"06", "Trelast- og trevareind.">>,
       <<"07", "Trykking, grafisk industri">>,
       <<"08", "Petrolieum, kull, kjemisk og farmasøytisk industri">>,
       <<"09", "Gummivare-, plast-,mineralproduktind.">>,
       <<"10", "Metallindustri">>,
       <<"11", "Metallvareindustri">>,
       <<"12", "Data- og elektronisk industri">>,
       <<"13", "Maskinindustri">>,
       <<"14", "Transportmidelindustri, utenom 30.1; Produksjon av kjøretøy og tilhengere, unntatt motorvogner og motorsykler">>,
       <<"15", "Produksjon av skip og båter, inkl. oljeplattformer">>,
       <<"16", "Møbel og annen industri">>,
       <<"17", "Elekstrisitet, gass, damp, varmtvann">>,
       <<"18", "Vann, avløp og renovasjon">>,
       <<"19", "Bygge- og anleggsvirksomhet">>,
       <<"20", "Motorvognrep og -handel">>,
       <<"21", "Agentur- og engroshandel">>,
       <<"22", "Detaljhandel, unntatt motorvogner">>,
       <<"23", "Landtransport og rørtransport">>,
       <<"24", "Sjøfart">>,
       <<"25", "Lufttransport">>,
       <<"26", "Lagring og tjenester tilknyttet transport">>,
       <<"27", "Posttjenester">>,
       <<"28", "Overnattingsvirksomhet">>,
       <<"29", "Serveringsvirksomhet">>,
       <<"30", "Forlag, film-, TV-pr, kringkasting">>,
       <<"31", "IKT-virksomhet">>,
       <<"32", "Finansieringsvirksomhet (bank, m.m.)">>,
       <<"33", "Forsikringsvirksomhet og pensjonskasser">>,
       <<"34", "Finansiell tjenesteyting">>,
       <<"35", "Omsetning og drift av fast eiendom">>,
       <<"36", "Juridisk-, hovedkontor-, konsulentj.">>,
       <<"37", "Forskning og utviklingsarbeid">>,
       <<"38", "Faglig, vitenskapelig og teknisk tjenesteyting ellers">>,
       <<"39", "Forretningsmessig tjenesteyting ellers">>,
       <<"40", "Off.adm., forsvar, sosialforsikring">>,
       <<"41", "Undervisning">>,
       <<"42", "Helsetjenester">>,
       <<"43", "Pleie og omsorg; Fritids- og sportsaktiviteter">>,
       <<"44", "Kultur, underholdning og fritid">>,
       <<"45", "Annen tjenesteyting">>,
       <<"46", "Lønnet husarbeid i private husholdninger">>,
       <<"47", "Internasjonale organisasjoner">> >>

nace_sn07_47grp(nace_sn07, disp) ==
    LET nace == str_replace(nace_sn07, ".", << >>)
        nace2 == to_numeric(str_slice(nace, 2))
        nace3 == to_numeric(str_slice(nace, 3))
    IN  np_select(nace_sn07_47grp_conditions(nace2, nace3),
                  results_of(nace_sn07_47grp_groups, disp), default_code(disp))

\* sektor2_grp: an element is a sector with its subsector.
sektor2_grp_conditions(sektor, undersektor) ==
    << sektor = "6100",
       sektor = "6500" /\ undersektor # "007",
       sektor = "6500" /\ undersektor = "007",
       sektor = "1510",
       sektor = "1520" >>

sektor2_grp_groups ==
    << <<"110", "Statlig forvaltning">>, <<"550", "Kommunal forvaltning">>,
       <<"510", "Fylkeskommunal forvaltning">>,
       <<"660", "Kommunale foretak med ubegrenset ansvar">>,
       <<"680", "Kommunalt eide aksjeselskaper m.v.">> >>

sektor2_grp_default_code(disp) ==
    IF disp = "label" THEN <<"Uoppgitt">>
    ELSE IF disp = "number" THEN <<"999">>
    ELSE <<"999", " ", "Uoppgitt">>

sektor2_grp(sektor, undersektor, disp) ==
    np_select(sektor2_grp_conditions(sektor, undersektor),
              results_of(sektor2_grp_groups, disp),
              sektor2_grp_default_code(disp))

\* landbakgrunn_grp.
landbakgrunn_grp_conditions(landbakgrunn_np) ==
    << landbakgrunn_np >= 0 /\ landbakgrunn_np <= 106,
       isin(landbakgrunn_np,
            <<112, 114, 117, 118, 119, 121, 123, 126, 127, 128, 129, 130,
              132, 134, 137, 139, 141, 144, 151, 153, 154, 162, 163, 164,
              194, 196, 199, 500>>),
       isin(landbakgrunn_np,
            <<113, 115, 122, 124, 131, 133, 136, 142, 146, 152, 157, 158>>),
       isin(landbakgrunn_np,
            <<111, 120, 125, 135, 138, 140, 148, 155, 156, 159, 160, 161,
              195>>),
       \/ isin(landbakgrunn_np, <<612, 684>>)
       \/ (landbakgrunn_np >= 802 /\ landbakgrunn_np <= 899),
       \/ landbakgrunn_np = 143
       \/ (landbakgrunn_np >= 404 /\ landbakgrunn_np <= 496)
       \/ (landbakgrunn_np >= 502 /\ landbakgrunn_np <= 599),
       landbakgrunn_np >= 203 /\ landbakgrunn_np <= 399,
       \/ (landbakgrunn_np >= 601 /\ landbakgrunn_np <= 608)
       \/ (landbakgrunn_np >= 613 /\ landbakgrunn_np <= 681)
       \/ (landbakgrunn_np >= 685 /\ landbakgrunn_np <= 799) >>

landbakgrunn_grp_groups ==
    << <<"00", "Norden">>, <<"194", "Vest-Europa ellers">>,
       <<"015a", "EU-land i Øst-Europa">>, <<"100c", "Øst-Europa ellers">>,
       <<"694c", "Nord-Amerika, Oseania">>, <<"400", "Asia">>,
       <<"200b", "Afrika">>, <<"794a", "Sør- og Mellom-Amerika">> >>

arblonn_groups == <<"200", "2", "3", "40", "350", "60", "5", "8">>

landbakgrunn_grp(landbakgrunn, disp) ==
    LET landbakgrunn_np == to_numeric(landbakgrunn)
        results ==
            IF disp = "arblonn"
            THEN [n \in 1..Len(arblonn_groups) |-> <<arblonn_groups[n]>>]
            ELSE results_of(landbakgrunn_grp_groups, disp)
        default ==
            IF disp = "label" THEN <<"Ukjent">>
            ELSE IF disp = "number" THEN <<"990">>
            ELSE IF disp = "arblonn" THEN <<"980-990">>
            ELSE <<"990", " ", "Ukjent">>
    IN  np_select(landbakgrunn_grp_conditions(landbakgrunn_np), results,
                  default)


\* The elements the classifiers are given.
IntElements == [kind : {"int"}, value : (-2)..MaxCount]
StringElements ==
    [kind : {"string"},
     value : ShiftCategories \cup {"ikke_skift"} \cup Unknowns \cup
             {"skift", "IKKE_SKIFT", "0", "-3", " ", "nan"}]
MissingElements == [kind : {"missing"}, value : {NA}]
CodeElements ==
    [kind : {"code"},
     value : UNION {[1..n -> CodeChars] : n \in 0..MaxCodeLen}]

\* NACE codes: the texts of up to MaxCodeLen digits, the same with a period
\* after the second digit, and the codes of the tests.
DigitTexts(n) == [1..n -> Range(DecimalDigits)]
with_period(code) == SubSeq(code, 1, 2) \o <<".">> \o SubSeq(code, 3, Len(code))
NaceCodes ==
    LET plain == UNION {DigitTexts(n) : n \in 1..MaxCodeLen}
    IN  plain \cup {with_period(code) : code \in {c \in plain : Len(c) > 2}}
              \cup {<<"4", "9", ".", "1", "0", "0">>,
                    <<"9", "3", ".", "1", "3", "0">>,
                    <<"9", "9", ".", "0", "0", "0">>,
                    <<"3", "0", ".", "1", "1", "0">>}
NaceElements == [kind : {"nace"}, value : NaceCodes]
SektorElements ==
    [kind : {"sektor"},
     value : [sektor : {"6100", "6500", "1510", "1520", "2100"},
              undersektor : {"007", "008", "009"}]]
LandLen == 3
LandElements == [kind : {"land"}, value : DigitTexts(LandLen)]

InitGroups ==
    /\ CalIdle
    /\ AggIdle
    /\ MergeIdle
    /\ RefIdle
    /\ UtilIdle
    /\ \/ series \in IntElements
       \/ series \in StringElements
       \/ series \in MissingElements
       \/ series \in CodeElements
       \/ series \in NaceElements
       \/ series \in SektorElements
       \/ series \in LandElements
    /\ display \in Displays
    /\ called = "none"
    /\ grouped = << >>

CallAlderGrp ==
    /\ called = "none"
    /\ series.kind = "int"
    /\ grouped' = alder_grp(series.value, display)
    /\ called' = "alder_grp"
    /\ UNCHANGED <<series, display>>
    /\ UNCHANGED NotGroups

CallAlder5Grp ==
    /\ called = "none"
    /\ series.kind = "int"
    /\ grouped' = alder_5grp(series.value, display)
    /\ called' = "alder_5grp"
    /\ UNCHANGED <<series, display>>
    /\ UNCHANGED NotGroups

CallVirkStr8Grp ==
    /\ called = "none"
    /\ series.kind = "int"
    /\ grouped' = virk_str_8grp(series.value, display)
    /\ called' = "virk_str_8grp"
    /\ UNCHANGED <<series, display>>
    /\ UNCHANGED NotGroups

CallTurnuskoder ==
    /\ called = "none"
    /\ series.kind \in {"string", "missing"}
    /\ grouped' = turnuskoder(series)
    /\ called' = "turnuskoder"
    /\ UNCHANGED <<series, display>>
    /\ UNCHANGED NotGroups

CallNyk08yrkeregsys1 ==
    /\ called = "none"
    /\ series.kind = "code"
    /\ grouped' = nyk08yrkeregsys1(series.value)
    /\ called' = "nyk08yrkeregsys1"
    /\ UNCHANGED <<series, display>>
    /\ UNCHANGED NotGroups

CallNaceSn0747grp ==
    /\ called = "none"
    /\ series.kind = "nace"
    /\ grouped' = nace_sn07_47grp(series.value, display)
    /\ called' = "nace_sn07_47grp"
    /\ UNCHANGED <<series, display>>
    /\ UNCHANGED NotGroups

CallSektor2Grp ==
    /\ called = "none"
    /\ series.kind = "sektor"
    /\ grouped' = sektor2_grp(series.value.sektor, series.value.undersektor,
                              display)
    /\ called' = "sektor2_grp"
    /\ UNCHANGED <<series, display>>
    /\ UNCHANGED NotGroups

CallLandbakgrunnGrp ==
    /\ called = "none"
    /\ series.kind = "land"
    /\ grouped' = landbakgrunn_grp(series.value, display)
    /\ called' = "landbakgrunn_grp"
    /\ UNCHANGED <<series, display>>
    /\ UNCHANGED NotGroups

NextGroups ==
    \/ CallNaceSn0747grp
    \/ CallSektor2Grp
    \/ CallLandbakgrunnGrp
    \/ CallAlderGrp
    \/ CallAlder5Grp
    \/ CallVirkStr8Grp
    \/ CallTurnuskoder
    \/ CallNyk08yrkeregsys1

SpecGroups == InitGroups /\ [][NextGroups]_vars


\* ---------------------------------------------------------------------------
\* Claims about the classifiers
\* ---------------------------------------------------------------------------

\* The conditions of a list that hold.
Hits(conds) == {k \in 1..Len(conds) : conds[k]}

\* The band an age of 16..69 belongs to, counted from the labels: four years
\* for the first, five years each up to 64, two years for 65-66, then single
\* years.
AgeBand(a) ==
    IF a <= 19 THEN 1
    ELSE IF a <= 64 THEN ((a - 20) \div 5) + 2
    ELSE IF a <= 66 THEN 11
    ELSE a - 55

\* The band of a number among bands that start at the given lower limits.
BandFrom(limits, n) == Cardinality({t \in limits : n >= t})

\* C16: the band conditions are pairwise disjoint and leave no gap.
\* alder_grp puts every age 16..69 in exactly one of its 14 bands and every
\* other age in "." in every display mode (16 gives "16-19 år", 70 gives
\* "."); alder_5grp puts every age >= 0 in exactly one of its 5 bands;
\* virk_str_8grp puts every employee count >= 0 in exactly one of its 8 bands.
C16_Bands ==
    /\ called = "alder_grp" =>
           LET a == series.value
               hits == Hits(alder_grp_conditions(a))
           IN /\ Len(alder_grp_conditions(a)) = 14
              /\ a \in 16..69 =>
                     /\ hits = {AgeBand(a)}
                     /\ grouped =
                            results_of(alder_grp_groups, display)[AgeBand(a)]
              /\ a \notin 16..69 => (hits = {} /\ grouped = <<".">>)
              /\ (a = 16 /\ display = "label") => grouped = <<"16-19 år">>
    /\ called = "alder_5grp" =>
           LET a == series.value
               hits == Hits(alder_5grp_conditions(a))
               band == 1 + BandFrom({25, 40, 55, 67}, a)
           IN /\ Len(alder_5grp_conditions(a)) = 5
              /\ a >= 0 =>
                     /\ hits = {band}
                     /\ grouped = results_of(alder_5grp_groups, display)[band]
    /\ called = "virk_str_8grp" =>
           LET n == series.value
               hits == Hits(virk_str_8grp_conditions(n))
               band == 1 + BandFrom({1, 5, 10, 20, 50, 100, 250}, n)
           IN /\ Len(virk_str_8grp_conditions(n)) = 8
              /\ n >= 0 =>
                     /\ hits = {band}
                     /\ grouped =
                            results_of(virk_str_8grp_groups, display)[band]

\* The age 66, the upper end of the two-year band, has been grouped in the
\* combined format.
C16_Witness ==
    /\ called = "alder_grp"
    /\ series.value = 66
    /\ grouped = <<"11", " ", "65-66 år">>

\* C17: for every string and for a missing value turnuskoder returns one of
\* "20", "25", "99" and nothing else.
C17_ThreeCodesAsStated ==
    called = "turnuskoder" => grouped \in {"20", "25", "99"}

\* turnuskoder returns "20" for the five shift categories, "25" for
\* "ikke_skift", "99" for "", "-1", "-2" and a missing value, and the empty
\* string for every other value.
C17_ThreeCodesAmended ==
    called = "turnuskoder" =>
        /\ grouped \in {"20", "25", "99", ""}
        /\ grouped = "20" <=>
               (series.kind = "string" /\ series.value \in ShiftCategories)
        /\ grouped = "25" <=>
               (series.kind = "string" /\ series.value = "ikke_skift")
        /\ grouped = "99" <=>
               \/ series.kind = "missing"
               \/ series.kind = "string" /\ series.value \in {"", "-1", "-2"}

\* A string outside the listed values has been coded.
C17_Witness ==
    /\ called = "turnuskoder"
    /\ series.kind = "string"
    /\ series.value = "skift"
    /\ grouped = ""

\* The first n characters of the code of the element are the given ones.
Starts(chars) == startswith(series.value, chars)

\* C18: the first true condition wins: a code starting with "01", "02", "03"
\* or "3" gives "3_01-03", any other code whose first character is one of
\* 1, 2, 4..9 gives that character, every remaining code gives "0b"; the
\* output "3" is never produced.
C18_Occupation ==
    called = "nyk08yrkeregsys1" =>
        LET code == series.value
            grouped_3 ==
                \/ Starts(<<"0", "1">>) \/ Starts(<<"0", "2">>)
                \/ Starts(<<"0", "3">>) \/ Starts(<<"3">>)
            own_digit ==
                /\ ~grouped_3
                /\ code # << >>
                /\ code[1] \in {"1", "2", "4", "5", "6", "7", "8", "9"}
        IN /\ grouped_3 => grouped = <<"3", "_", "0", "1", "-", "0", "3">>
           /\ own_digit => grouped = <<code[1]>>
           /\ (~grouped_3 /\ ~own_digit) => grouped = <<"0", "b">>
           /\ grouped # <<"3">>

\* A code that starts with 3 has been classified.
C18_Witness ==
    /\ called = "nyk08yrkeregsys1"
    /\ series.value = <<"3", "1", "0">>
    /\ grouped = <<"3", "_", "0", "1", "-", "0", "3">>


\* ---------------------------------------------------------------------------
\* functions/reference.py: ref_day, ref_week, ref_tuesday
\* ---------------------------------------------------------------------------

\* The days of a month, as day numbers.
DaysOfMonth(y, m) ==
    DaysFromCivil(y, m, 1) ..
        ((IF m = 12 THEN DaysFromCivil(y + 1, 1, 1)
                    ELSE DaysFromCivil(y, m + 1, 1)) - 1)

\* The first pair of a batch is any two days of January 2022 and December
\* 2024, months whose first or last days lie in an ISO week numbered in the
\* neighbouring year.
FirstDates == DaysOfMonth(2022, 1) \cup DaysOfMonth(2024, 12)

\* The pairs that can follow it: one inside a month, one across months, one
\* across years in the same month, one across both.
OtherPairs ==
    { <<DaysFromCivil(2022, 2, 20), DaysFromCivil(2022, 2, 28)>>,
      <<DaysFromCivil(2022, 1, 20), DaysFromCivil(2022, 2, 18)>>,
      <<DaysFromCivil(2022, 12, 5), DaysFromCivil(2024, 12, 20)>>,
      <<DaysFromCivil(2023, 1, 1), DaysFromCivil(2024, 4, 1)>> }

RefDates == FirstDates \cup UNION {{p[1], p[2]} : p \in OtherPairs}

\* Series.dt.dayofweek: Monday = 0 .. Sunday = 6; day 0 is a Thursday.
dayofweek(d) == (d + 3) % 7

\* Series.dt.isocalendar().week: the number, within its year, of the week's
\* Thursday.
isocalendar_week(d) ==
    LET thursday == d - dayofweek(d) + 3
    IN ((thursday - DaysFromCivil(CivilYear(thursday), 1, 1)) \div 7) + 1

\* The 16th of the month of a date: the date written as f"{y}-{m:02d}-16"
\* and read back.
sixteenth(y, m) == DaysFromCivil(y, m, 16)

\* The calendar fields of the model's dates, tabulated once.
RefTable ==
    [d \in RefDates |->
        LET y == CivilYear(d)
            m == MonthOf(d)
        IN [year |-> y, month |-> m, week |-> isocalendar_week(d),
            ref_day |-> sixteenth(y, m),
            ref_week |-> isocalendar_week(sixteenth(y, m)),
            weekday_16th |-> dayofweek(sixteenth(y, m))]]

dt_year(dates) == [i \in 1..Len(dates) |-> RefTable[dates[i]].year]
dt_month(dates) == [i \in 1..Len(dates) |-> RefTable[dates[i]].month]

\* The two checks every reference function makes first: the years, then the
\* months, each over the whole batch.
same_period_error_month_first(from, to) ==
    IF dt_month(from) # dt_month(to) THEN "ValueError: same month"
    ELSE IF dt_year(from) # dt_year(to) THEN "ValueError: same year"
    ELSE "none"
same_period_error(from, to) ==
    IF dt_year(from) # dt_year(to) THEN "ValueError: same year"
    ELSE IF dt_month(from) # dt_month(to) THEN "ValueError: same month"
    ELSE "none"

\* What a reference function gives: the error of the checks, or one boolean
\* per pair.
checked(from, to, result) ==
    IF same_period_error(from, to) # "none"
    THEN Raised(same_period_error(from, to))
    ELSE [status |-> "ok", result |-> result]

ref_day(from, to) ==
    checked(from, to,
        [i \in 1..Len(from) |->
            LET ref_days == RefTable[from[i]].ref_day
            IN from[i] <= ref_days /\ ref_days <= to[i]])

ref_week(from, to) ==
    checked(from, to,
        [i \in 1..Len(from) |->
            LET from_weeks == RefTable[from[i]].week
                to_weeks == RefTable[to[i]].week
                ref_weeks == RefTable[from[i]].ref_week
            IN from_weeks <= ref_weeks /\ ref_weeks <= to_weeks])

ref_tuesday(from, to) ==
    checked(from, to,
        [i \in 1..Len(from) |->
            LET reference_16th == RefTable[from[i]].ref_day
                weekday_16th == RefTable[from[i]].weekday_16th
                tuesday_ref == reference_16th + (1 - weekday_16th)
            IN from[i] <= tuesday_ref /\ tuesday_ref <= to[i]])

InitRef ==
    /\ CalIdle
    /\ AggIdle
    /\ MergeIdle
    /\ GroupsIdle
    /\ UtilIdle
    /\ ref_from = << >>
    /\ ref_to = << >>
    /\ ref_called = "none"
    /\ ref_out = NotCalled

\* The caller appends one (from, to) pair to the two series.
AddRefPair ==
    /\ ref_called = "none"
    /\ Len(ref_from) < MaxRefPairs
    /\ \E p \in (IF ref_from = << >> THEN FirstDates \X FirstDates
                                    ELSE OtherPairs) :
           /\ ref_from' = Append(ref_from, p[1])
           /\ ref_to' = Append(ref_to, p[2])
    /\ UNCHANGED <<ref_called, ref_out>>
    /\ UNCHANGED NotReference

CallRefDay ==
    /\ ref_called = "none"
    /\ ref_out' = ref_day(ref_from, ref_to)
    /\ ref_called' = "ref_day"
    /\ UNCHANGED <<ref_from, ref_to>>
    /\ UNCHANGED NotReference

CallRefWeek ==
    /\ ref_called = "none"
    /\ ref_out' = ref_week(ref_from, ref_to)
    /\ ref_called' = "ref_week"
    /\ UNCHANGED <<ref_from, ref_to>>
    /\ UNCHANGED NotReference

CallRefTuesday ==
    /\ ref_called = "none"
    /\ ref_out' = ref_tuesday(ref_from, ref_to)
    /\ ref_called' = "ref_tuesday"
    /\ UNCHANGED <<ref_from, ref_to>>
    /\ UNCHANGED NotReference

NextRef == AddRefPair \/ CallRefDay \/ CallRefWeek \/ CallRefTuesday

SpecRef == InitRef /\ [][NextRef]_vars


\* ---------------------------------------------------------------------------
\* Claims about the reference functions
\* ---------------------------------------------------------------------------

\* The days, Monday to Sunday, of the week that contains the 16th of the
\* month of a date; the weekday of the 16th is taken from the civil date.
WeekOfSixteenth(d) ==
    LET y == CivilYear(d)
        m == MonthOf(d)
        monday == DaysFromCivil(y, m, 16) - CivilWeekday(y, m, 16)
    IN monday..(monday + 6)

\* C19: for a pair within one year and month ref_week gives true exactly
\* when some date of [from, to] lies in the ISO week, Monday to Sunday, that
\* contains the 16th of that month; also for January and December pairs with
\* dates in a week numbered in the neighbouring year (2022-01-01..2022-01-31
\* gives true).
C19_RefWeekAsStated ==
    (ref_called = "ref_week" /\ ref_out.status = "ok") =>
        \A i \in 1..Len(ref_from) :
            ref_out.result[i] =
                ((ref_from[i]..ref_to[i]) \cap WeekOfSixteenth(ref_from[i])
                    # {})

\* Some pair of the batch lies in two years, or in two months.
CrossesYear ==
    \E i \in 1..Len(ref_from) : CivilYear(ref_from[i]) # CivilYear(ref_to[i])
CrossesMonth ==
    \E i \in 1..Len(ref_from) : MonthOf(ref_from[i]) # MonthOf(ref_to[i])

\* C20: each of ref_day, ref_week and ref_tuesday raises a ValueError and
\* returns nothing whenever some pair of the batch has from and to in
\* different years or in different months, also when every other pair is
\* valid; the years are checked before the months.
C20_SamePeriod ==
    ref_called # "none" =>
        /\ CrossesYear => ref_out = Raised("ValueError: same year")
        /\ (~CrossesYear /\ CrossesMonth) =>
               ref_out = Raised("ValueError: same month")

\* A batch whose first pair is valid and whose second pair crosses both a
\* year and a month has been refused.
C20_Witness ==
    /\ ref_called = "ref_tuesday"
    /\ Len(ref_from) = 2
    /\ CivilYear(ref_from[1]) = CivilYear(ref_to[1])
    /\ MonthOf(ref_from[1]) = MonthOf(ref_to[1])
    /\ CivilYear(ref_from[2]) # CivilYear(ref_to[2])
    /\ MonthOf(ref_from[2]) # MonthOf(ref_to[2])
    /\ ref_out.status = "ValueError: same year"


\* ---------------------------------------------------------------------------
\* Further claims about proc_sums
\* ---------------------------------------------------------------------------

\* C24: proc_sums leaves its arguments unchanged: no step of the call alters
\* the caller's table or the caller's agg_func dictionary, also when agg_func
\* maps a column to a list of one function.
C24_ArgumentsAsStated ==
    [][pc \notin {"idle", "input"} => (df' = df /\ agg_func' = agg_func)]_vars

\* The sum of a value column over a set of output rows.
RECURSIVE OutSum(_, _)
OutSum(rows, col) ==
    IF rows = {} THEN 0
    ELSE LET n == CHOOSE x \in rows : TRUE
         IN sum_df[n].vals[col] + OutSum(rows \ {n}, col)

\* C28: with sum aggregation, for every table (missing grouping values
\* included) and every subset S of the grouping columns, each input row
\* contributes to exactly one output row of S, so the values of the rows of S
\* add up to the value of the grand-total row.
C28_SubsetSumsAsStated ==
    (pc = "done" /\ ~agg_func.given) =>
        \A S \in SUBSET GroupSet :
            /\ \A i \in 1..Len(df) :
                   Cardinality({n \in RowsFor(S) :
                       \A g \in S : sum_df[n].keys[g] = df[i][g]}) = 1
            /\ \A col \in Range(values.cols) :
                   OutSum(RowsFor(S), col) = OutSum(RowsFor({}), col)


\* ---------------------------------------------------------------------------
\* functions/interval.py: pinterval.  A text is the sequence of its characters.
\* ---------------------------------------------------------------------------

\* Lines 37-42: the year and the unit of a period, as texts; unpacking a
\* split into other than two parts fails.
year_and_unit(period, sep) ==
    IF sep = << >>
    THEN <<SubSeq(period, 1, IF Len(period) < 4 THEN Len(period) ELSE 4),
           SubSeq(period, 5, Len(period))>>
    ELSE IF Cardinality(occurrences(period, sep)) # 1 THEN << >>
    ELSE LET at == CHOOSE i \in occurrences(period, sep) : TRUE
         IN <<SubSeq(period, 1, at - 1),
              SubSeq(period, at + Len(sep), Len(period))>>

\* freq[:1].lower() for the spellings a caller uses.
FreqChoices == {"m", "q", "quarterly", "Monthly", "year"}
freq_head(freq) ==
    CASE freq \in {"m", "Monthly"} -> "m"
      [] freq \in {"q", "quarterly"} -> "q"
      [] freq = "year" -> "y"

\* range(a, b + 1) as a sequence.
range_incl(a, b) == [k \in 1..(IF b < a THEN 0 ELSE b - a + 1) |-> a + k - 1]

\* Lines 51-59: the periods of one year.
periods_of_year_from_start(year, sy, su, ey, eu, unit_range, sep, freq) ==
    LET units == range_incl(su, IF year = ey THEN eu ELSE unit_range)
    IN [k \in 1..Len(units) |->
           str(year) \o sep \o
           (IF freq = "m" THEN zfill(str(units[k]), 2) ELSE str(units[k]))]
periods_of_year(year, sy, su, ey, eu, unit_range, sep, freq) ==
    LET start == IF year = sy THEN su ELSE 1
        end == IF year = ey THEN eu ELSE unit_range
        units == range_incl(start, end)
    IN [k \in 1..Len(units) |->
           str(year) \o sep \o
           (IF freq = "m" THEN zfill(str(units[k]), 2) ELSE str(units[k]))]

pinterval(start_p, end_p, sep, freq_arg) ==
    LET freq == freq_head(freq_arg)
        s == year_and_unit(start_p, sep)
        e == year_and_unit(end_p, sep)
    IN IF freq \notin {"m", "q"} THEN Raised("ValueError: frequency")
       ELSE IF ~contains(start_p, sep) \/ ~contains(end_p, sep)
       THEN Raised("ValueError: format")
       ELSE IF s = << >> \/ e = << >> THEN Raised("ValueError: unpack")
       ELSE IF \E text \in {s[1], s[2], e[1], e[2]} : ~is_digits(text)
       THEN Raised("ValueError: int")
       ELSE LET unit_range == IF freq = "q" THEN 4 ELSE 12
                years == range_incl(int(s[1]), int(e[1]))
            IN [status |-> "ok",
                interval |->
                    Flatten([k \in 1..Len(years) |->
                        periods_of_year(years[k], int(s[1]), int(s[2]),
                                        int(e[1]), int(e[2]), unit_range,
                                        sep, freq)])]


\* The periods a caller writes: a year of four digits, the separator, and a
\* month of two digits or a quarter of one.
FirstYear == 2021
PeriodYears == FirstYear..(FirstYear + MaxYearSpan)
MonthTexts ==
    << <<"0", "1">>, <<"0", "2">>, <<"0", "3">>, <<"0", "4">>,
       <<"0", "5">>, <<"0", "6">>, <<"0", "7">>, <<"0", "8">>,
       <<"0", "9">>, <<"1", "0">>, <<"1", "1">>, <<"1", "2">> >>
UnitsOf(freq) == IF freq_head(freq) = "q" THEN 4 ELSE 12
PeriodText(y, u, sep, freq) ==
    <<DecimalDigits[(y \div 1000) + 1], DecimalDigits[((y \div 100) % 10) + 1],
      DecimalDigits[((y \div 10) % 10) + 1], DecimalDigits[(y % 10) + 1]>>
        \o sep \o
        (IF freq_head(freq) = "q" THEN <<DecimalDigits[u + 1]>>
                                  ELSE MonthTexts[u])
Separators == {<< >>, <<"k">>}

\* The calls of pinterval: two periods written with one separator, and the
\* separator and frequency handed to the function.
PintervalCalls ==
    UNION {
        { [start_p |-> PeriodText(sy, su, written, freq),
           end_p |-> PeriodText(ey, eu, written, freq),
           sep |-> sep, freq |-> freq,
           start |-> <<sy, su>>, end |-> <<ey, eu>>, written |-> written] :
            sy \in PeriodYears, ey \in PeriodYears,
            su \in 1..UnitsOf(freq), eu \in 1..UnitsOf(freq),
            written \in Separators, sep \in Separators } :
        freq \in FreqChoices }

InitInterval ==
    /\ CalIdle
    /\ AggIdle
    /\ MergeIdle
    /\ GroupsIdle
    /\ RefIdle
    /\ call_fn = "none"
    /\ call_args \in PintervalCalls
    /\ call_ret = NotCalled

CallPinterval ==
    /\ call_fn = "none"
    /\ call_ret' = pinterval(call_args.start_p, call_args.end_p,
                             call_args.sep, call_args.freq)
    /\ call_fn' = "pinterval"
    /\ UNCHANGED call_args
    /\ UNCHANGED NotUtilities

NextInterval == CallPinterval

SpecInterval == InitInterval /\ [][NextInterval]_vars

\* The place of a period in the run of all periods.
PeriodIndex(p, U) == p[1] * U + p[2] - 1

\* C21: for well-formed periods with start_p not later than end_p pinterval
\* returns every period from start_p to end_p inclusive, in increasing order
\* without gaps or repeats: the first is start_p, the last end_p, and there
\* are (end_year - start_year) * U + end_unit - start_unit + 1 of them, the
\* unit restarting at 1 after U (12 for months, 4 for quarters).
C21_Interval ==
    LET a == call_args
        U == UnitsOf(a.freq)
        first == PeriodIndex(a.start, U)
        last == PeriodIndex(a.end, U)
        count == (a.end[1] - a.start[1]) * U + a.end[2] - a.start[2] + 1
    IN (/\ call_fn = "pinterval"
        /\ a.sep = a.written
        /\ freq_head(a.freq) \in {"m", "q"}
        /\ first <= last) =>
           /\ call_ret.status = "ok"
           /\ Len(call_ret.interval) = count
           /\ call_ret.interval[1] = a.start_p
           /\ call_ret.interval[count] = a.end_p
           /\ \A k \in 1..count :
                  call_ret.interval[k] =
                      PeriodText((first + k - 1) \div U,
                                 ((first + k - 1) % U) + 1, a.sep, a.freq)

\* A quarterly interval over three years, written with a separator, has
\* been returned.
C21_Witness ==
    /\ call_fn = "pinterval"
    /\ call_args.start_p = <<"2", "0", "2", "1", "k", "3">>
    /\ call_args.end_p = <<"2", "0", "2", "3", "k", "2">>
    /\ call_args.sep = <<"k">>
    /\ call_ret.status = "ok"
    /\ Len(call_ret.interval) = 8


\* ---------------------------------------------------------------------------
\* functions/categorize_ranges.py: categorize_ranges
\* ---------------------------------------------------------------------------

None == "None"

\* The items of a dictionary are a sequence of <<key, value>> in insertion
\* order; a key is a text.

\* sorted(format_dict.items(), key=lambda item: int(item[0])), the keys
\* turned into integers.
RECURSIVE sorted_items(_)
sorted_items(items) ==
    IF items = << >> THEN << >>
    ELSE LET least == CHOOSE n \in 1..Len(items) :
                 \A m \in 1..Len(items) :
                     \/ int(items[n][1]) < int(items[m][1])
                     \/ (int(items[n][1]) = int(items[m][1]) /\ n <= m)
             rest == [k \in 1..(Len(items) - 1) |->
                         IF k < least THEN items[k] ELSE items[k + 1]]
         IN << <<int(items[least][1]), items[least][2]>> >>
                \o sorted_items(rest)

\* pd.cut(value, bins + [inf], labels, right=False) for one value: the label
\* of the interval [bins[n], bins[n + 1]) that holds it, NaN below the first
\* bin.
cut(value, sorted_dict) ==
    LET holds(n) ==
            /\ sorted_dict[n][1] <= value
            /\ (n = Len(sorted_dict) \/ value < sorted_dict[n + 1][1])
    IN IF \E n \in 1..Len(sorted_dict) : holds(n)
       THEN sorted_dict[CHOOSE n \in 1..Len(sorted_dict) : holds(n)][2]
       ELSE NA

\* obj.astype(int) refuses a series that holds a missing value.
astype_int_fails(obj) == \E n \in 1..Len(obj) : obj[n].kind = "missing"

categorize_ranges(obj, format_name, format_dict) ==
    IF format_name \notin DOMAIN format_dict
    THEN Raised("ValueError: no format")
    ELSE LET items == format_dict[format_name]
         IN IF \E n \in 1..Len(items) : ~is_digits(items[n][1])
            THEN Raised("ValueError: non-digits")
            ELSE IF astype_int_fails(obj)
            THEN Raised("ValueError: cannot convert NaN to integer")
            ELSE LET categories ==
                         [n \in 1..Len(obj) |->
                             cut(obj[n].value, sorted_items(items))]
                 IN [status |-> "ok",
                     series |-> [n \in 1..Len(obj) |->
                                    IF categories[n] = NA THEN None
                                    ELSE categories[n]]]


\* The series handed to categorize_ranges: whole numbers near the cut-off
\* points of the tests, and missing values.
ObjValues == {v \in 0..MaxValue : v % 5 \in {0, 1, 4}}
ObjElements ==
    [kind : {"int"}, value : ObjValues]
        \cup {[kind |-> "missing", value |-> MissingValue]}
ObjSeries == UNION {[1..n -> ObjElements] : n \in 0..MaxObjLen}

\* The dictionary of the tests, its keys in every order, and one with a key
\* that is no number.
ExampleItems ==
    { << <<<<"1", "0">>, "Low">>, <<<<"2", "0">>, "Medium">>,
         <<<<"3", "0">>, "High">> >>,
      << <<<<"1", "0">>, "Low">>, <<<<"3", "0">>, "High">>,
         <<<<"2", "0">>, "Medium">> >>,
      << <<<<"2", "0">>, "Medium">>, <<<<"1", "0">>, "Low">>,
         <<<<"3", "0">>, "High">> >>,
      << <<<<"2", "0">>, "Medium">>, <<<<"3", "0">>, "High">>,
         <<<<"1", "0">>, "Low">> >>,
      << <<<<"3", "0">>, "High">>, <<<<"1", "0">>, "Low">>,
         <<<<"2", "0">>, "Medium">> >>,
      << <<<<"3", "0">>, "High">>, <<<<"2", "0">>, "Medium">>,
         <<<<"1", "0">>, "Low">> >> }
NonDigitItems ==
    << <<<<"1", "0">>, "Low">>, <<<<"t", "w">>, "Medium">>,
       <<<<"3", "0">>, "High">> >>

CategorizeCalls ==
    [obj : ObjSeries,
     format_name : {"example_format", "invalid_format"},
     format_dict : {("example_format" :> items) :
                       items \in ExampleItems \cup {NonDigitItems}}]

InitCategorize ==
    /\ CalIdle
    /\ AggIdle
    /\ MergeIdle
    /\ GroupsIdle
    /\ RefIdle
    /\ call_fn = "none"
    /\ call_args \in CategorizeCalls
    /\ call_ret = NotCalled

CallCategorizeRanges ==
    /\ call_fn = "none"
    /\ call_ret' = categorize_ranges(call_args.obj, call_args.format_name,
                                     call_args.format_dict)
    /\ call_fn' = "categorize_ranges"
    /\ UNCHANGED call_args
    /\ UNCHANGED NotUtilities

NextCategorize == CallCategorizeRanges

SpecCategorize == InitCategorize /\ [][NextCategorize]_vars

\* A call of categorize_ranges with a format that exists and whose keys are
\* numbers has been made.
CategorizedValid ==
    /\ call_fn = "categorize_ranges"
    /\ call_args.format_name = "example_format"
    /\ call_args.format_dict["example_format"] \in ExampleItems

\* The label of the smallest cut-off point of 10, 20, 30 that is not below
\* the value, the label of 30 above that.
LabelByCutOff(v) ==
    IF v <= 10 THEN "Low" ELSE IF v <= 20 THEN "Medium" ELSE "High"

\* C22: every non-missing value v gets the label of the smallest cut-off key
\* k with v <= k, and the label of the largest key when v exceeds every key,
\* whatever the order of the keys in the dictionary (5 and 10 give Low, 15
\* and 20 Medium, 25, 30, 35 and 40 High).
C22_CutOffsAsStated ==
    (CategorizedValid /\ ~astype_int_fails(call_args.obj)) =>
        /\ call_ret.status = "ok"
        /\ \A n \in 1..Len(call_args.obj) :
               call_ret.series[n] = LabelByCutOff(call_args.obj[n].value)

\* C23: on a series that contains missing values the call completes without
\* error and returns None at exactly the positions of the missing values.
C23_MissingAsStated ==
    (CategorizedValid /\ astype_int_fails(call_args.obj)) =>
        /\ call_ret.status = "ok"
        /\ \A n \in 1..Len(call_args.obj) :
               (call_ret.series[n] = None)
                   <=> (call_args.obj[n].kind = "missing")

\* ------------------------------------------------------------------------
\* sb_integer: numbers as rounded integers in text, for the statbank.

MaxNumber == 26
MaxUnit == 2

\* 10 ** n
RECURSIVE pow10(_)
pow10(n) == IF n = 0 THEN 1 ELSE 10 * pow10(n - 1)

abs(n) == IF n < 0 THEN -n ELSE n

\* Series.round(-abs(unit)) on whole numbers: the nearest multiple of
\* 10 ** abs(unit), a tie going to the even multiple.
round(value, unit) ==
    LET p == pow10(abs(unit))
        q == value \div p
        r == value % p
    IN  IF 2 * r < p THEN q * p
        ELSE IF 2 * r > p THEN (q + 1) * p
        ELSE IF q % 2 = 0 THEN q * p ELSE (q + 1) * p

\* astype(int).astype(str) of one element
astype_str(n) == IF n < 0 THEN <<"-">> \o str(-n) ELSE str(n)

\* fillna(placeholder) of one element
fillna(element, placeholder) ==
    IF element.kind = "missing" THEN placeholder ELSE element.value

\* Series.replace(old, new) on one element: whole-value replacement
replace(text, old, new) == IF text = old THEN new ELSE text

sb_integer(number, unit) ==
    LET placeholder == (-1) * pow10(abs(unit))
    IN  [n \in 1..Len(number) |->
            replace(astype_str(round(fillna(number[n], placeholder), unit)),
                    astype_str(placeholder), << >>)]

\* The numbers of the tests and the whole numbers around zero.
NumberValues == ((-MaxNumber)..MaxNumber) \cup {975}
NumberElements ==
    [kind : {"int"}, value : NumberValues]
        \cup {[kind |-> "missing", value |-> MissingValue]}
SbIntegerCalls ==
    [number : UNION {[1..n -> NumberElements] : n \in 1..MaxObjLen},
     unit : (-1)..MaxUnit]

InitSbInteger ==
    /\ CalIdle
    /\ AggIdle
    /\ MergeIdle
    /\ GroupsIdle
    /\ RefIdle
    /\ call_fn = "none"
    /\ call_args \in SbIntegerCalls
    /\ call_ret = NotCalled

CallSbInteger ==
    /\ call_fn = "none"
    /\ call_ret' = [status |-> "ok",
                    series |-> sb_integer(call_args.number, call_args.unit)]
    /\ call_fn' = "sb_integer"
    /\ UNCHANGED call_args
    /\ UNCHANGED NotUtilities

NextSbInteger == CallSbInteger

SpecSbInteger == InitSbInteger /\ [][NextSbInteger]_vars

\* C30: sb_integer returns the empty string for an element if and only if
\* the element is missing; every other element, negative numbers included,
\* comes back as the decimal text of its value rounded to a multiple of
\* 10 ** |unit|.
C30_EmptyIffMissingAsStated ==
    call_fn = "sb_integer" =>
        \A n \in 1..Len(call_args.number) :
            LET element == call_args.number[n]
            IN  /\ (call_ret.series[n] = << >>) <=> (element.kind = "missing")
                /\ element.kind = "int" =>
                       call_ret.series[n] =
                           astype_str(round(element.value, call_args.unit))

\* What does hold: the placeholder is the only number that is lost.
SbIntegerExceptPlaceholder ==
    call_fn = "sb_integer" =>
        \A n \in 1..Len(call_args.number) :
            LET element == call_args.number[n]
                placeholder == (-1) * pow10(abs(call_args.unit))
            IN  element.kind = "int" =>
                    /\ round(element.value, call_args.unit) # placeholder =>
                           call_ret.series[n] =
                               astype_str(round(element.value, call_args.unit))
                    /\ round(element.value, call_args.unit) = placeholder =>
                           call_ret.series[n] = << >>

\* The lists the tests expect.
SbIntegerOfTests ==
    /\ sb_integer(<<[kind |-> "int", value |-> 975],
                    [kind |-> "int", value |-> 25],
                    [kind |-> "missing", value |-> MissingValue]>>, 1)
           = <<<<"9", "8", "0">>, <<"2", "0">>, << >> >>
    /\ sb_integer(<<[kind |-> "int", value |-> 975],
                    [kind |-> "int", value |-> 25]>>, 2)
           = <<<<"1", "0", "0", "0">>, <<"0">> >>

\* ------------------------------------------------------------------------
\* Claims about nace_sn07_47grp

\* The digits of a code and the numbers the conditions read.
NaceDigits(code) == str_replace(code, ".", << >>)
NaceTwo(code) == to_numeric(str_slice(NaceDigits(code), 2))
NaceThree(code) == to_numeric(str_slice(NaceDigits(code), 3))
NaceHits(code) ==
    Hits(nace_sn07_47grp_conditions(NaceTwo(code), NaceThree(code)))

\* C25: for a code of two or more digits at most one of the 47 conditions
\* holds; a code whose first two digits are 99 gets group 47 and one whose
\* first two digits are 90..93 gets group 44, whatever its length.
C25_ExclusiveConditionsAsStated ==
    (called = "nace_sn07_47grp" /\ Len(NaceDigits(series.value)) >= 2) =>
        /\ Cardinality(NaceHits(series.value)) <= 1
        /\ NaceTwo(series.value) = 99 =>
               grouped = results_of(nace_sn07_47grp_groups, display)[47]
        /\ (NaceTwo(series.value) >= 90 /\ NaceTwo(series.value) <= 93) =>
               grouped = results_of(nace_sn07_47grp_groups, display)[44]

\* What does hold: the conditions exclude each other for every code of three
\* or more digits, and the two-digit codes 91 and 99 are the only ones that
\* meet two conditions (they get groups 03 and 02).
NaceExclusiveFromThreeDigits ==
    called = "nace_sn07_47grp" =>
        /\ Len(NaceDigits(series.value)) >= 3 =>
               Cardinality(NaceHits(series.value)) <= 1
        /\ Len(NaceDigits(series.value)) = 2 =>
               /\ Cardinality(NaceHits(series.value)) > 1
                      <=> NaceTwo(series.value) \in {91, 99}
               /\ NaceTwo(series.value) = 99 =>
                      grouped = results_of(nace_sn07_47grp_groups, display)[2]
               /\ NaceTwo(series.value) = 91 =>
                      grouped = results_of(nace_sn07_47grp_groups, display)[3]

\* ------------------------------------------------------------------------
\* Claims about the display formats

WithDisplay == {"alder_grp", "alder_5grp", "virk_str_8grp",
                "nace_sn07_47grp", "sektor2_grp", "landbakgrunn_grp"}

\* The output of the classifier that was called, for the same input in
\* another format.
Classified(disp) ==
    CASE called = "alder_grp" -> alder_grp(series.value, disp)
      [] called = "alder_5grp" -> alder_5grp(series.value, disp)
      [] called = "virk_str_8grp" -> virk_str_8grp(series.value, disp)
      [] called = "nace_sn07_47grp" -> nace_sn07_47grp(series.value, disp)
      [] called = "sektor2_grp" ->
             sektor2_grp(series.value.sektor, series.value.undersektor, disp)
      [] called = "landbakgrunn_grp" -> landbakgrunn_grp(series.value, disp)

NumberBlankLabel == Classified("number") \o <<" ">> \o Classified("label")

\* An age that meets no condition of the age classifier that was called.
UnmatchedAge ==
    \/ called = "alder_grp" /\ Hits(alder_grp_conditions(series.value)) = {}
    \/ called = "alder_5grp" /\ Hits(alder_5grp_conditions(series.value)) = {}

\* C27 as stated: for each classifier with a display parameter and every
\* input, matched or unmatched, the combined output is the number-mode
\* output, one blank and the label-mode output.
C27_CombinedAsStated ==
    (called \in WithDisplay /\ display = "combined") =>
        grouped = NumberBlankLabel

\* C27 amended: the combined output is the number-mode output, one blank and
\* the label-mode output for every input of virk_str_8grp, nace_sn07_47grp,
\* sektor2_grp and landbakgrunn_grp and for every matched age of alder_grp
\* and alder_5grp; an unmatched age gives the same marker in every format
\* ("." for alder_grp, "" for alder_5grp), not the marker twice with a blank.
C27_CombinedAmended ==
    (called \in WithDisplay /\ display = "combined") =>
        IF UnmatchedAge
        THEN /\ grouped = Classified("number")
             /\ grouped = Classified("label")
             /\ grouped = IF called = "alder_grp" THEN <<".">> ELSE <<"">>
             /\ grouped # NumberBlankLabel
        ELSE grouped = NumberBlankLabel

\* An unmatched age was classified in the combined format.
C27_Witness ==
    /\ called = "alder_grp"
    /\ display = "combined"
    /\ UnmatchedAge
    /\ grouped = <<".">>

\* ---------------------------------------------------------------------------
\* groups/region.py: counties and the regions outside the mainland.  The
\* classification registry is outside the repository: the codes it returns
\* for the year are an input of the call.
\* ---------------------------------------------------------------------------

Unspecified == <<"9", "9">>

\* Lines 33-38: the county codes of the year without "99"; list.remove fails
\* when the registry does not list "99".
get_valid_county_codes(fylke_klass) ==
    IF Unspecified \notin fylke_klass THEN Raised("ValueError: list.remove")
    ELSE [status |-> "ok", codes |-> fylke_klass \ {Unspecified}]

\* Lines 53-54
get_regional_special_codes(reg_klass) == reg_klass

classify_mainland_not_mainland(municipality_no, fylke_klass, reg_klass) ==
    LET valid_county_codes == get_valid_county_codes(fylke_klass)
        regional_special_codes == get_regional_special_codes(reg_klass)
    IN  IF valid_county_codes.status # "ok" THEN valid_county_codes
        ELSE [status |-> "ok",
              series |->
                  [n \in 1..Len(municipality_no) |->
                      IF str_slice(municipality_no[n], 2)
                             \in valid_county_codes.codes
                      THEN "FNorge"
                      ELSE IF str_slice(municipality_no[n], 2)
                                  \in regional_special_codes
                      THEN "IFNorge"
                      ELSE "Uoppgitt"]]

selected_not_mainland_codes ==
    {<<"2", "1">>, <<"2", "2">>, <<"2", "3">>, <<"2", "4">>}

classify_county_not_mainland(municipality_no, fylke_klass, reg_klass, detailed) ==
    LET valid_county_codes == get_valid_county_codes(fylke_klass)
        regional_special_codes == get_regional_special_codes(reg_klass)
    IN  IF valid_county_codes.status # "ok" THEN valid_county_codes
        ELSE [status |-> "ok",
              series |->
                  [n \in 1..Len(municipality_no) |->
                      LET county_no == str_slice(municipality_no[n], 2)
                      IN  IF county_no \in valid_county_codes.codes
                          THEN county_no
                          ELSE IF detailed
                          THEN IF county_no \in selected_not_mainland_codes
                               THEN county_no ELSE Unspecified
                          ELSE IF county_no \in regional_special_codes
                               THEN <<"9", "9", "g">> ELSE Unspecified]]

\* The municipality numbers of the tests and some more, and the lists the
\* registry may give for a year.
MaxMunicipalities == 2
CountyPrefixes ==
    {<<"0", "1">>, <<"0", "3">>, <<"2", "1">>, <<"2", "2">>, <<"2", "5">>,
     <<"9", "9">>}
MunicipalityNumbers ==
    {prefix \o suffix : prefix \in CountyPrefixes,
                        suffix \in {<<"0", "1">>, <<"1", "1">>}}
        \cup {<<"3">>, << >>}
CountyLists == SUBSET {<<"0", "3">>, <<"1", "1">>, Unspecified}
SpecialLists == SUBSET {<<"2", "1">>, <<"2", "2">>, <<"2", "5">>}
RegionCalls ==
    [municipality_no :
         UNION {[1..n -> MunicipalityNumbers] : n \in 1..MaxMunicipalities},
     fylke_klass : CountyLists,
     reg_klass : SpecialLists,
     detailed : BOOLEAN]

InitRegion ==
    /\ CalIdle
    /\ AggIdle
    /\ MergeIdle
    /\ GroupsIdle
    /\ RefIdle
    /\ call_fn = "none"
    /\ call_args \in RegionCalls
    /\ call_ret = NotCalled

CallClassifyMainlandNotMainland ==
    /\ call_fn = "none"
    /\ call_ret' = classify_mainland_not_mainland(
                       call_args.municipality_no, call_args.fylke_klass,
                       call_args.reg_klass)
    /\ call_fn' = "classify_mainland_not_mainland"
    /\ UNCHANGED call_args
    /\ UNCHANGED NotUtilities

CallClassifyCountyNotMainland ==
    /\ call_fn = "none"
    /\ call_ret' = classify_county_not_mainland(
                       call_args.municipality_no, call_args.fylke_klass,
                       call_args.reg_klass, call_args.detailed)
    /\ call_fn' = "classify_county_not_mainland"
    /\ UNCHANGED call_args
    /\ UNCHANGED NotUtilities

NextRegion ==
    \/ CallClassifyMainlandNotMainland
    \/ CallClassifyCountyNotMainland

SpecRegion == InitRegion /\ [][NextRegion]_vars

CountyClassified ==
    /\ call_fn = "classify_county_not_mainland"
    /\ call_ret.status = "ok"

\* C26: in detailed mode classify_county_not_mainland returns the prefix of
\* a municipality number when the prefix is a valid county code of the year
\* or one of the year's regional special codes, and "99" otherwise; so a
\* municipality that classify_mainland_not_mainland labels "IFNorge" keeps
\* its prefix.
C26_DetailedAsStated ==
    (CountyClassified /\ call_args.detailed) =>
        \A n \in 1..Len(call_args.municipality_no) :
            LET prefix == str_slice(call_args.municipality_no[n], 2)
                mainland == classify_mainland_not_mainland(
                                call_args.municipality_no,
                                call_args.fylke_klass, call_args.reg_klass)
            IN  /\ call_ret.series[n] =
                       IF prefix \in (call_args.fylke_klass \ {Unspecified})
                                         \cup call_args.reg_klass
                       THEN prefix ELSE Unspecified
                /\ mainland.series[n] = "IFNorge" =>
                       call_ret.series[n] = prefix

\* What does hold: the detailed mode keeps the prefixes 21, 22, 23 and 24,
\* whatever the registry lists for the year.
DetailedKeepsSelectedCodes ==
    (CountyClassified /\ call_args.detailed) =>
        \A n \in 1..Len(call_args.municipality_no) :
            LET prefix == str_slice(call_args.municipality_no[n], 2)
            IN  call_ret.series[n] =
                    IF prefix \in (call_args.fylke_klass \ {Unspecified})
                                      \cup selected_not_mainland_codes
                    THEN prefix ELSE Unspecified

\* The lists the tests expect, with the registry's lists of 2023 and 2019
\* cut down to the codes the tests use.
RegionOfTests ==
    LET numbers == << <<"0", "1", "0", "1">>, <<"0", "3", "0", "1">>,
                      <<"2", "1", "0", "0">>, <<"9", "9", "9", "9">>,
                      <<"2", "2", "1", "1">> >>
        special == {<<"2", "1">>, <<"2", "2">>}
    IN  /\ classify_mainland_not_mainland(
               numbers, {<<"0", "3">>, Unspecified}, special).series
             = <<"Uoppgitt", "FNorge", "IFNorge", "Uoppgitt", "IFNorge">>
        /\ classify_county_not_mainland(
               numbers, {<<"0", "1">>, <<"0", "3">>, Unspecified}, special,
               TRUE).series
             = << <<"0", "1">>, <<"0", "3">>, <<"2", "1">>, <<"9", "9">>,
                  <<"2", "2">> >>

\* ---------------------------------------------------------------------------
\* ssb_arbmark_fagfunksjoner/groups.py: nace_sn07_17grp, applied to a whole
\* Series (its nace_sn07_47grp is the one of groups/nace.py, line for line).
\* ---------------------------------------------------------------------------

\* nace_sn07.str.split(" ", n=1).str[0] for one element
first_part(code) ==
    IF \E i \in 1..Len(code) : code[i] = " "
    THEN SubSeq(code, 1, (CHOOSE i \in 1..Len(code) :
                             code[i] = " " /\ \A j \in 1..(i - 1) : code[j] # " ")
                         - 1)
    ELSE code

\* first_parts.str.len().max()
max_length(codes) ==
    CHOOSE m \in {Len(first_part(codes[n])) : n \in 1..Len(codes)} :
        \A n \in 1..Len(codes) : Len(first_part(codes[n])) <= m

nace_sn07_17grp_conditions(nace_str2_np) ==
    << nace_str2_np = 1,
       isin(nace_str2_np, <<2, 3>>),
       nace_str2_np >= 4 /\ nace_str2_np <= 16,
       isin(nace_str2_np, <<17, 18>>),
       nace_str2_np = 19,
       isin(nace_str2_np, <<20, 21, 22>>),
       nace_str2_np >= 23 /\ nace_str2_np <= 27,
       isin(nace_str2_np, <<28, 29>>),
       isin(nace_str2_np, <<30, 31>>),
       isin(nace_str2_np, <<32, 33, 34>>),
       nace_str2_np >= 35 /\ nace_str2_np <= 38,
       nace_str2_np = 39,
       nace_str2_np = 40,
       nace_str2_np = 41,
       isin(nace_str2_np, <<42, 43>>),
       nace_str2_np >= 44 /\ nace_str2_np <= 47 >>

nace_sn07_17grp_groups ==
    << <<"01-03", "Jordbruk, skogbruk og fiske">>,
       <<"05-09", "Bergverksdrift og utvinning">>,
       <<"10-33", "Industri">>,
       <<"35-39", "Elektrisitet, vann og renovasjon">>,
       <<"41-43", "Bygge- og anleggsvirksomhet">>,
       <<"45-47", "Varehandel, reparasjon av motorvogner">>,
       <<"49-53", "Transport og lagring">>,
       <<"55-56", "Overnattings- og serveringsvirksomhet">>,
       <<"58-63", "Informasjon og kommunikasjon">>,
       <<"64-66", "Finansiering og forsikring">>,
       <<"68-75", "Teknisk tjenesteyting, eiendomsdrift">>,
       <<"77-82", "Forretningsmessig tjenesteyting">>,
       <<"84", "Off.adm., forsvar, sosialforsikring">>,
       <<"85", "Undervisning">>,
       <<"86-88", "Helse- og sosialtjenester">>,
       <<"90-99", "Personlig tjenesteyting">> >>

\* The key of a 47-group, "01" .. "47" or "99", as a number.
key_to_numeric(key) ==
    IF key = <<"99">> THEN 99
    ELSE CHOOSE k \in 1..Len(nace_sn07_47grp_groups) :
             <<nace_sn07_47grp_groups[k][1]>> = key

nace_sn07_17grp(nace_sn07, disp) ==
    LET wide == max_length(nace_sn07) > 2
        nace_str2_np ==
            [n \in 1..Len(nace_sn07) |->
                IF wide
                THEN key_to_numeric(nace_sn07_47grp(nace_sn07[n], "number"))
                ELSE to_numeric(first_part(nace_sn07[n]))]
    IN  [printed |-> wide,
         grouped |->
             [n \in 1..Len(nace_sn07) |->
                 np_select(nace_sn07_17grp_conditions(nace_str2_np[n]),
                           results_of(nace_sn07_17grp_groups, disp),
                           sektor2_grp_default_code(disp))]]

\* The Series: a code of one or two digits or one of the longer codes,
\* alone or next to one other code.
WideCodes ==
    {<<"4", "9", ".", "1", "0", "0">>, <<"4", "5", ".", "1", "1", "1">>,
     <<"9", "3", ".", "1", "3", "0">>, <<"0", "1", "1">>, <<"9", "9", "0">>}
OtherCodes == {<<"0", "1">>, <<"4", "5">>, <<"4", "9", ".", "1", "0", "0">>}
NaceSeries ==
    LET codes == DigitTexts(1) \cup DigitTexts(2) \cup WideCodes
    IN  {<<code>> : code \in codes}
            \cup {<<code, other>> : code \in codes, other \in OtherCodes}
            \cup {<<other, code>> : code \in codes, other \in OtherCodes}

InitNace17 ==
    /\ CalIdle
    /\ AggIdle
    /\ MergeIdle
    /\ RefIdle
    /\ UtilIdle
    /\ series \in NaceSeries
    /\ display \in Displays
    /\ called = "none"
    /\ grouped = << >>

CallNaceSn0717grp ==
    /\ called = "none"
    /\ grouped' = nace_sn07_17grp(series, display)
    /\ called' = "nace_sn07_17grp"
    /\ UNCHANGED <<series, display>>
    /\ UNCHANGED NotGroups

NextNace17 == CallNaceSn0717grp

SpecNace17 == InitNace17 /\ [][NextNace17]_vars

\* C29: the 17-group result of a code depends on the code and the display
\* mode only: a Series gives at each position what the Series of that one
\* code gives.
C29_PositionwiseAsStated ==
    called = "nace_sn07_17grp" =>
        \A n \in 1..Len(series) :
            grouped.grouped[n] =
                nace_sn07_17grp(<<series[n]>>, display).grouped[1]

\* What does hold: the result of a code depends on the code, the display
\* mode and whether some code of the Series is wider than two characters.
PositionwiseGivenWidth ==
    called = "nace_sn07_17grp" =>
        \A n \in 1..Len(series) :
            grouped.grouped[n] =
                IF max_length(series) > 2
                THEN nace_sn07_17grp(<<series[n], <<"0", "0", "0">> >>,
                                     display).grouped[1]
                ELSE nace_sn07_17grp(<<series[n]>>, display).grouped[1]

====
